---- MODULE Spec2Model ----
(***************************************************************************)
(* A model of auger's static-analysis pipeline for Solana SBF binaries:    *)
(* the text extraction and framework-parser driver of                      *)
(* crates/core/src/parsing/base_parser.rs, the Anchor / native / LLD       *)
(* parsers, and the symbol demangler of crates/core/src/demangler.rs.      *)
(*                                                                         *)
(* Strings are sequences of byte values (the extracted text is ASCII), so  *)
(* that searching, slicing and regex matching are computed, not assumed.   *)
(* Indices are 0-based as in the source; Slice(s, a, b) is Rust's s[a..b]. *)
(* Option<T> is modelled as a sequence: None is <<>>, Some(x) is <<x>>.    *)
(***************************************************************************)
EXTENDS Integers, Sequences, FiniteSets, TLC

VARIABLES
    bytes,            \* extract_from_bytes: the binary's bytes
    program_headers,  \* the decoder's program headers (their p_offset)
    accepted,         \* whether Program::from_bytes accepts the bytes
    config,           \* AugerConfig
    parsers,          \* BaseSBFParser.parsers, in list order
    pc,               \* how the current call of extract_from_bytes stands
    result,           \* what the call returned
    first_result,     \* what the previous call on the same input returned
    run,              \* number of calls made on this input
    blob,             \* demangler / LLDParser: the input string
    demangled,        \* Some(what demangle(blob) returned)
    names,            \* what extract_mangled_names(blob) did
    lld,              \* what LLDParser::extract_definitions(blob) did
    program,          \* MemoryMap::new: the decoded program and the data
    memory_map,       \* the MemoryMap, once built
    functions,        \* what find_functions returned, and of which analyzer
    control_flow,     \* what map_control_flow returned, and of which analyzer
    type_registry,    \* the TypeRegistry
    returned,         \* what the calls of register_type returned, in call order
    access_patterns,  \* MemoryMap.access_patterns
    resolved,         \* whether StructResolver::resolve has run
    api_keys_env,     \* the API_KEYS environment variable of the server
    request,          \* the last request api_key_auth was run on
    response          \* what api_key_auth answered

extractVars == <<bytes, program_headers, accepted, config, parsers, pc, result,
                 first_result, run>>
lldVars == <<blob, demangled, names, lld>>
mapVars == <<program, memory_map, functions, control_flow>>
regVars == <<type_registry, returned, access_patterns, resolved>>
authVars == <<api_keys_env, request, response>>
vars == <<extractVars, lldVars, mapVars, regVars, authVars>>

-----------------------------------------------------------------------------
(* Bounds of the model.                                                    *)

MaxBytes == 4
MaxFF == 2
MaxChunks == 2
MaxPieces == 3
MaxSlots == 3
MaxTypes == 2
MaxAccesses == 3

-----------------------------------------------------------------------------
(* Option values.                                                          *)

None == <<>>
Some(x) == <<x>>

-----------------------------------------------------------------------------
(* String primitives of the Rust standard library, on byte sequences.      *)

Slice(s, a, b) == SubSeq(s, a + 1, b)

MatchesAt(s, i, p) == i + Len(p) <= Len(s) /\ SubSeq(s, i + 1, i + Len(p)) = p

StartsWith(s, p) == MatchesAt(s, 0, p)

EndsWith(s, p) == Len(p) <= Len(s) /\ MatchesAt(s, Len(s) - Len(p), p)

\* str::find on s[from..], as an index into s; -1 when there is none.
FindFrom(s, from, p) ==
    LET First(hits) ==
            IF hits = {} THEN -1 ELSE CHOOSE i \in hits : \A j \in hits : i <= j
    IN  First({i \in from .. Len(s) - Len(p) : MatchesAt(s, i, p)})

Contains(s, p) == FindFrom(s, 0, p) # -1

RECURSIVE Replace(_, _, _)
\* str::replace: every non-overlapping occurrence, left to right.
Replace(s, from, to) ==
    LET At(i) == IF i = -1 THEN s
                 ELSE Slice(s, 0, i) \o to
                          \o Replace(Slice(s, i + Len(from), Len(s)), from, to)
    IN  At(FindFrom(s, 0, from))

RECURSIVE Split(_, _)
\* str::split(sep).collect()
Split(s, sep) ==
    LET At(i) == IF i = -1 THEN <<s>>
                 ELSE <<Slice(s, 0, i)>> \o Split(Slice(s, i + Len(sep), Len(s)), sep)
    IN  At(FindFrom(s, 0, sep))

RECURSIVE Join(_, _)
\* [String]::join(sep)
Join(parts, sep) ==
    IF Len(parts) = 0 THEN <<>>
    ELSE IF Len(parts) = 1 THEN parts[1]
    ELSE parts[1] \o sep \o Join(Tail(parts), sep)

\* The number of consecutive characters of class C in s from index i on.
RunLen(s, i, C) ==
    LET Upto(stops) ==
            IF stops = {} THEN Len(s) - i
            ELSE (CHOOSE j \in stops : \A k \in stops : j <= k) - i
    IN  IF i >= Len(s) THEN 0
        ELSE Upto({j \in i .. Len(s) - 1 : s[j + 1] \notin C})

Digits == 48 .. 57
Upper == 65 .. 90
Lower == 97 .. 122
Alnum == Digits \cup Upper \cup Lower
HexDigits == Digits \cup (65 .. 70) \cup (97 .. 102)

Max(S) == CHOOSE x \in S : \A y \in S : y <= x

-----------------------------------------------------------------------------
(* crates/core/src/consts.rs                                               *)

STD_LIB_NAMES ==
    { <<99, 111, 114, 101>>, \* "core"
      <<97, 108, 108, 111, 99>>, \* "alloc"
      <<115, 116, 100>>, \* "std"
      <<116, 101, 115, 116>>, \* "test"
      <<112, 114, 111, 99, 95, 109, 97, 99, 114, 111>>, \* "proc_macro"
      <<101, 114, 114, 111, 114>>, \* "error"
      <<102, 117, 116, 117, 114, 101>>, \* "future"
      <<102, 109, 116>>, \* "fmt"
      <<101, 110, 118>>, \* "env"
      <<97, 110, 121>>, \* "any"
      <<97, 114, 99, 104>>, \* "arch"
      <<97, 114, 114, 97, 121>>, \* "array"
      <<97, 115, 99, 105, 105>>, \* "ascii"
      <<98, 97, 99, 107, 116, 114, 97, 99, 101>>, \* "backtrace"
      <<98, 111, 114, 114, 111, 119>>, \* "borrow"
      <<98, 111, 120, 101, 100>>, \* "boxed"
      <<99, 101, 108, 108>>, \* "cell"
      <<99, 104, 97, 114>>, \* "char"
      <<99, 108, 111, 110, 101>>, \* "clone"
      <<99, 109, 112>>, \* "cmp"
      <<99, 111, 108, 108, 101, 99, 116, 105, 111, 110, 115>>, \* "collections"
      <<99, 111, 110, 118, 101, 114, 116>>, \* "convert"
      <<100, 101, 102, 97, 117, 108, 116>>, \* "default"
      <<102, 51, 50>>, \* "f32"
      <<102, 54, 52>>, \* "f64"
      <<102, 102, 105>>, \* "ffi"
      <<102, 115>>, \* "fs"
      <<104, 97, 115, 104>>, \* "hash"
      <<104, 105, 110, 116>>, \* "hint"
      <<105, 56>>, \* "i8"
      <<105, 49, 54>>, \* "i16"
      <<105, 51, 50>>, \* "i32"
      <<105, 54, 52>>, \* "i64"
      <<105, 49, 50, 56>>, \* "i128"
      <<105, 111>>, \* "io"
      <<105, 115, 105, 122, 101>>, \* "isize"
      <<105, 116, 101, 114>>, \* "iter"
      <<109, 97, 114, 107, 101, 114>>, \* "marker"
      <<109, 101, 109>>, \* "mem"
      <<110, 101, 116>>, \* "net"
      <<110, 117, 109>>, \* "num"
      <<111, 112, 115>>, \* "ops"
      <<111, 112, 116, 105, 111, 110>>, \* "option"
      <<111, 115>>, \* "os"
      <<112, 97, 110, 105, 99>>, \* "panic"
      <<112, 97, 116, 104>>, \* "path"
      <<112, 105, 110>>, \* "pin"
      <<112, 114, 101, 108, 117, 100, 101>>, \* "prelude"
      <<112, 114, 105, 109, 105, 116, 105, 118, 101>>, \* "primitive"
      <<112, 114, 111, 99, 101, 115, 115>>, \* "process"
      <<112, 116, 114>>, \* "ptr"
      <<114, 99>>, \* "rc"
      <<114, 101, 115, 117, 108, 116>>, \* "result"
      <<115, 108, 105, 99, 101>>, \* "slice"
      <<115, 116, 114>>, \* "str"
      <<115, 116, 114, 105, 110, 103>>, \* "string"
      <<115, 121, 110, 99>>, \* "sync"
      <<116, 97, 115, 107>>, \* "task"
      <<116, 104, 114, 101, 97, 100>>, \* "thread"
      <<116, 105, 109, 101>>, \* "time"
      <<117, 56>>, \* "u8"
      <<117, 49, 54>>, \* "u16"
      <<117, 51, 50>>, \* "u32"
      <<117, 54, 52>>, \* "u64"
      <<117, 49, 50, 56>>, \* "u128"
      <<117, 115, 105, 122, 101>>, \* "usize"
      <<118, 101, 99>>, \* "vec"
      <<97, 115, 115, 101, 114, 116, 95, 109, 97, 116, 99, 104, 101, 115>>, \* "assert_matches"
      <<97, 115, 121, 110, 99, 95, 105, 116, 101, 114>>, \* "async_iter"
      <<97, 117, 116, 111, 100, 105, 102, 102>>, \* "autodiff"
      <<102, 49, 54>>, \* "f16"
      <<102, 49, 50, 56>>, \* "f128"
      <<105, 110, 116, 114, 105, 110, 115, 105, 99, 115>>, \* "intrinsics"
      <<112, 97, 116>>, \* "pat"
      <<112, 105, 112, 101>>, \* "pipe"
      <<114, 97, 110, 100, 111, 109>>, \* "random"
      <<115, 105, 109, 100>>, \* "simd"
      <<117, 110, 115, 97, 102, 101, 95, 98, 105, 110, 100, 101, 114>>, \* "unsafe_binder"
      <<99, 111, 109, 112, 105, 108, 101, 114, 95, 98, 117, 105, 108, 116, 105, 110, 115>>, \* "compiler_builtins"
      <<114, 117, 115, 116, 99, 95, 115, 116, 100, 95, 119, 111, 114, 107, 115, 112, 97, 99, 101, 95, 99, 111, 114, 101>>, \* "rustc_std_workspace_core"
      <<114, 117, 115, 116, 99, 95, 115, 116, 100, 95, 119, 111, 114, 107, 115, 112, 97, 99, 101, 95, 97, 108, 108, 111, 99>> \* "rustc_std_workspace_alloc"
    }

ANCILLARY_LIB_NAMES ==
    { <<97, 110, 99, 104, 111, 114, 95, 108, 97, 110, 103>>, \* "anchor_lang"
      <<97, 110, 99, 104, 111, 114, 95, 115, 112, 108>>, \* "anchor_spl"
      <<115, 112, 108, 95, 116, 111, 107, 101, 110>>, \* "spl_token"
      <<115, 112, 108, 95, 97, 115, 115, 111, 99, 105, 97, 116, 101, 100, 95, 116, 111, 107, 101, 110, 95, 97, 99, 99, 111, 117, 110, 116>>, \* "spl_associated_token_account"
      <<115, 112, 108, 95, 109, 101, 109, 111>>, \* "spl_memo"
      <<112, 105, 110, 110, 111, 99, 104, 105, 111>>, \* "pinnochio"
      <<115, 111, 108, 97, 110, 97, 95, 112, 114, 111, 103, 114, 97, 109>>, \* "solana_program"
      <<98, 111, 114, 115, 104>>, \* "borsh"
      <<110, 117, 109, 95, 100, 101, 114, 105, 118, 101>>, \* "num_derive"
      <<110, 117, 109, 95, 116, 114, 97, 105, 116, 115>>, \* "num_traits"
      <<116, 104, 105, 115, 101, 114, 114, 111, 114>>, \* "thiserror"
      <<98, 121, 116, 101, 109, 117, 99, 107>>, \* "bytemuck"
      <<114, 117, 105, 110, 116>>, \* "ruint"
      <<115, 111, 107, 111, 98, 97, 110>>, \* "sokoban"
      <<102, 105, 120, 101, 100>>, \* "fixed"
      <<97, 114, 114, 97, 121, 114, 101, 102>>, \* "arrayref"
      <<97, 114, 114, 97, 121, 118, 101, 99>>, \* "arrayvec"
      <<105, 116, 101, 114, 116, 111, 111, 108, 115>> \* "itertools"
    }

PROTECTED_INSTRUCTIONS ==
    { <<73, 100, 108, 67, 114, 101, 97, 116, 101, 65, 99, 99, 111, 117, 110, 116>>, \* "IdlCreateAccount"
      <<73, 100, 108, 67, 108, 111, 115, 101, 65, 99, 99, 111, 117, 110, 116>>, \* "IdlCloseAccount"
      <<73, 100, 108, 87, 114, 105, 116, 101>>, \* "IdlWrite"
      <<73, 100, 108, 83, 101, 116, 65, 117, 116, 104, 111, 114, 105, 116, 121>>, \* "IdlSetAuthority"
      <<73, 100, 108, 82, 101, 115, 105, 122, 101, 65, 99, 99, 111, 117, 110, 116>> \* "IdlResizeAccount"
    }

REMOVABLE_KEYWORDS ==
    << <<73, 110, 115, 116, 114, 117, 99, 116, 105, 111, 110>>, \* "Instruction"
      <<97, 110, 99, 104, 111, 114>>, \* "anchor"
      <<105, 100, 108>>, \* "idl"
      <<115, 112, 97, 99, 101>>, \* "space"
      <<105, 110, 118, 97, 108, 105, 100>>, \* "invalid"
      <<118, 97, 108, 117, 101>>, \* "value"
      <<105, 110, 100, 101, 120>> \* "index"
    >>

FALSE_POSITIVES ==
    { <<97, 110, 99, 104, 111, 114>>, \* "anchor"
      <<105, 100, 108>>, \* "idl"
      <<115, 112, 97, 99, 101>>, \* "space"
      <<105, 110, 100, 101, 120>>, \* "index"
      <<114, 115>>, \* "rs"
      <<105, 110, 118, 97, 108, 105, 100>>, \* "invalid"
      <<73, 110, 118, 97, 108, 105, 100>>, \* "Invalid"
      <<118, 97, 108, 117, 101>> \* "value"
    }

-----------------------------------------------------------------------------
(* Regex matching as the regex crate does it for the patterns used:        *)
(* leftmost-first, non-overlapping, greedy with backtracking.              *)

\* A match of  pre ([A-Za-z0-9]+) suf  starting exactly at index s: the
\* length of the capture (the longest that lets suf follow), 0 for no match.
CaptureLenAt(text, s, pre, suf) ==
    IF ~MatchesAt(text, s, pre) THEN 0
    ELSE Max({0} \cup {k \in 1 .. RunLen(text, s + Len(pre), Alnum) :
                          MatchesAt(text, s + Len(pre) + k, suf)})

RECURSIVE CapturesIter(_, _, _, _)
\* Regex::captures_iter(text) of  pre ([A-Za-z0-9]+) suf : the set of
\* group-1 captures of the successive matches from index `from` on, each
\* match the leftmost one at or after the end of the one before.
CapturesIter(text, from, pre, suf) ==
    LET Capture(j, k) ==
            {Slice(text, j, j + k)} \cup CapturesIter(text, j + k + Len(suf), pre, suf)
        At(s) == Capture(s + Len(pre), CaptureLenAt(text, s, pre, suf))
        First(starts) ==
            IF starts = {} THEN {}
            ELSE At(CHOOSE s \in starts : \A q \in starts : s <= q)
    IN  First({s \in from .. Len(text) - 1 : CaptureLenAt(text, s, pre, suf) > 0})

\* The instruction-name length filter of the parsers and of the driver.
NameLenOk(name) == Len(name) > 1 /\ Len(name) <= 50

-----------------------------------------------------------------------------
(* crates/core/src/utils/parsing.rs                                        *)

RECURSIVE CollapseSlashes(_)
CollapseSlashes(s) ==
    IF Contains(s, <<47, 47>>) THEN CollapseSlashes(Replace(s, <<47, 47>>, <<47>>))
    ELSE s

normalize_source_path(path) ==
    LET programs == <<112, 114, 111, 103, 114, 97, 109, 115, 47>> \* "programs/"
        src_in == <<47, 115, 114, 99, 47>>                      \* "/src/"
        src_pre == <<115, 114, 99, 47>>                         \* "src/"
        src_src == <<47, 115, 114, 99, 47, 115, 114, 99, 47>>   \* "/src/src/"
        rs == <<46, 114, 115>>                                  \* ".rs"
        Extension(n) ==
            IF ~EndsWith(n, rs) /\ ~Contains(n, <<46>>) THEN n \o rs ELSE n
        Stutter(n) ==
            Extension(IF Contains(n, src_src) THEN Replace(n, src_src, src_in) ELSE n)
        Prefix(n) ==
            Stutter(IF ~StartsWith(n, programs) /\ ~Contains(n, src_in)
                    THEN IF StartsWith(n, src_pre)
                         THEN src_pre \o Slice(n, Len(src_pre), Len(n))
                         ELSE src_pre \o n
                    ELSE n)
    IN  Prefix(CollapseSlashes(path))

\* count_projects_by_name: the number of files of each project.
count_projects_by_name(files) ==
    [p \in {f.project : f \in files} |-> Cardinality({f \in files : f.project = p})]

\* A choice of the main project that may also give up on a tie, which C7
\* rules out.
FindMainProjectTieNone(files) ==
    LET Among(counts, best) ==
            IF Cardinality(best) > 1 THEN {None} \cup {Some(p) : p \in best}
            ELSE IF best = {} THEN {None} ELSE {Some(p) : p \in best}
        Of(counts, filtered) ==
            Among(counts, {p \in filtered : \A q \in filtered : counts[q] <= counts[p]})
        Counted(counts) == Of(counts, {p \in DOMAIN counts : p \notin STD_LIB_NAMES})
    IN  Counted(count_projects_by_name(files))

\* A choice of the main project that leaves the standard-library names in,
\* which C15 rules out.
FindMainProjectWithStdLibs(files) ==
    LET MaxByKey(project_counts, filtered) ==
            IF filtered = {} THEN {None}
            ELSE {Some(p) : p \in {q \in filtered :
                      \A o \in filtered : project_counts[o] <= project_counts[q]}}
        Counted(project_counts) == MaxByKey(project_counts, DOMAIN project_counts)
    IN  Counted(count_projects_by_name(files))

\* find_main_project: max_by_key over a HashMap's iteration, whose order is
\* unspecified: any project of highest count may be returned.  The set of
\* the values the call can return.
find_main_project(files) ==
    LET MaxByKey(project_counts, filtered) ==
            IF filtered = {} THEN {None}
            ELSE {Some(p) : p \in {q \in filtered :
                      \A o \in filtered : project_counts[o] <= project_counts[q]}}
        Counted(project_counts) ==
            MaxByKey(project_counts, (DOMAIN project_counts) \ STD_LIB_NAMES)
    IN  Counted(count_projects_by_name(files))

-----------------------------------------------------------------------------
(* crates/core/src/parsing/anchor.rs                                       *)

RECURSIVE CleanFrom(_, _)
CleanFrom(name, k) ==
    IF k > Len(REMOVABLE_KEYWORDS) THEN name
    ELSE CleanFrom(IF EndsWith(name, REMOVABLE_KEYWORDS[k])
                   THEN Slice(name, 0, Len(name) - Len(REMOVABLE_KEYWORDS[k]))
                   ELSE name, k + 1)

\* AnchorParser::clean_instruction_name: one pass over REMOVABLE_KEYWORDS.
clean_instruction_name(name) == CleanFrom(name, 1)

\* AnchorParser::is_protected
is_protected(name) ==
    name \in PROTECTED_INSTRUCTIONS \/ StartsWith(name, <<73, 100, 108>>) \* "Idl"

\* AnchorParser::parse_instructions
AnchorParseInstructions(text) ==
    LET head == <<73, 110, 115, 116, 114, 117, 99, 116, 105, 111, 110, 58, 32>> \* "Instruction: "
        colon == <<58, 32>>                                                    \* ": "
        tail == <<73, 110, 115, 116, 114, 117, 99, 116, 105, 111, 110>>         \* "Instruction"
        re == CapturesIter(text, 0, head, <<>>)
        alt_re == CapturesIter(text, 0, colon, tail)
        additional_re == CapturesIter(text, 0, <<>>, tail)
    IN  {clean_instruction_name(n) : n \in {c \in re : NameLenOk(c)}}
        \cup {clean_instruction_name(n) :
                 n \in {m \in {c \o tail : c \in alt_re \cup additional_re} : NameLenOk(m)}}

\* AnchorParser::can_handle
AnchorCanHandle(text) ==
    CapturesIter(text, 0,
        <<73, 110, 115, 116, 114, 117, 99, 116, 105, 111, 110, 58, 32>>, <<>>) # {}

RECURSIVE AnchorFileMatches(_, _)
\* The matches of  programs/[^.]+\.rs  from index `from` on.
AnchorFileMatches(text, from) ==
    LET programs == <<112, 114, 111, 103, 114, 97, 109, 115, 47>> \* "programs/"
        Match(s, d) ==
            IF s = -1 \/ d = -1 THEN {}
            ELSE IF d > s + Len(programs) /\ MatchesAt(text, d, <<46, 114, 115>>)
                 THEN {Slice(text, s, d + 3)} \cup AnchorFileMatches(text, d + 3)
                 ELSE AnchorFileMatches(text, s + 1)
        At(s) == Match(s, IF s = -1 THEN -1 ELSE FindFrom(text, s + Len(programs), <<46>>))
    IN  At(FindFrom(text, from, programs))

RECURSIVE AnchorProject(_, _)
\* project_re.captures(path): group 1 of the first match of
\* programs/([^/]+)/  from index `from` on, as an Option.
AnchorProject(path, from) ==
    LET programs == <<112, 114, 111, 103, 114, 97, 109, 115, 47>> \* "programs/"
        Match(q, c) ==
            IF q = -1 \/ c = -1 THEN None
            ELSE IF c > q + Len(programs) THEN Some(Slice(path, q + Len(programs), c))
            ELSE AnchorProject(path, q + 1)
        At(q) == Match(q, IF q = -1 THEN -1 ELSE FindFrom(path, q + Len(programs), <<47>>))
    IN  At(FindFrom(path, from, programs))

\* AnchorParser::extract_source_files (extract_standard_paths)
AnchorExtractSourceFiles(text) ==
    LET File(project, relative_path) ==
            [path |-> <<112, 114, 111, 103, 114, 97, 109, 115, 47>> \o project
                          \o <<47, 115, 114, 99, 47>> \o relative_path,
             project |-> project,
             relative_path |-> relative_path]
        Truncated(m, rs_pos) == IF rs_pos # -1 THEN Slice(m, 0, rs_pos + 3) ELSE m
        FilesOf(m, project) ==
            IF project = None THEN {}
            ELSE {File(project[1], normalize_source_path(
                                       Truncated(m, FindFrom(m, 0, <<46, 114, 115>>))))}
    IN  UNION {FilesOf(m, AnchorProject(m, 0)) : m \in AnchorFileMatches(text, 0)}

-----------------------------------------------------------------------------
(* crates/core/src/parsing/native.rs                                       *)

\* NativeParser::parse_instructions
NativeParseInstructions(text) ==
    {c \in CapturesIter(text, 0, <<73, 88, 58, 32>>, <<>>) : NameLenOk(c)} \* "IX: "

\* A match of  [a-zA-Z0-9_-]+/src/[a-zA-Z0-9_/-]+\.rs  starting exactly at
\* index s: the index just after it, -1 for no match.
NativeFileEndAt(text, s) ==
    LET class1 == Alnum \cup {95, 45}
        class2 == class1 \cup {47}
        src_in == <<47, 115, 114, 99, 47>> \* "/src/"
        End(a, r2) ==
            IF r2 > 0 /\ MatchesAt(text, a + r2, <<46, 114, 115>>) THEN a + r2 + 3 ELSE -1
        After(r1) ==
            IF r1 > 0 /\ MatchesAt(text, s + r1, src_in)
            THEN End(s + r1 + Len(src_in), RunLen(text, s + r1 + Len(src_in), class2))
            ELSE -1
    IN  After(RunLen(text, s, class1))

RECURSIVE NativeFileMatches(_, _)
\* file_re.find_iter(text) from index `from` on: each match the leftmost
\* one at or after the end of the one before.
NativeFileMatches(text, from) ==
    LET Match(s, e) == {Slice(text, s, e)} \cup NativeFileMatches(text, e)
        First(starts) ==
            IF starts = {} THEN {}
            ELSE (LET At(s) == Match(s, NativeFileEndAt(text, s))
                  IN  At(CHOOSE s \in starts : \A q \in starts : s <= q))
    IN  First({s \in from .. Len(text) - 1 : NativeFileEndAt(text, s) # -1})

\* NativeParser::can_handle
NativeCanHandle(text) ==
    CapturesIter(text, 0, <<73, 88, 58, 32>>, <<>>) # {} \/ NativeFileMatches(text, 0) # {}

\* NativeParser::extract_source_files (extract_standard_paths)
NativeExtractSourceFiles(text) ==
    LET File(project, relative_path) ==
            [path |-> project \o <<47>> \o relative_path,
             project |-> project,
             relative_path |-> relative_path]
        FilesOf(path, parts) ==
            IF StartsWith(path, <<112, 114, 111, 103, 114, 97, 109, 115, 47>>) \* "programs/"
            THEN {}
            ELSE IF Len(parts) >= 2 /\ parts[1] \notin STD_LIB_NAMES
            THEN {File(parts[1], normalize_source_path(<<115, 114, 99, 47>> \o parts[2]))}
            ELSE {}
    IN  UNION {FilesOf(p, Split(p, <<47, 115, 114, 99, 47>>)) : \* "/src/"
                  p \in NativeFileMatches(text, 0)}

-----------------------------------------------------------------------------
(* crates/core/src/demangler.rs                                            *)
(* A call returns Ok(symbol) or Err(message), or panics (status "Panic").  *)

NoSymbol ==
    [path |-> <<>>, name |-> <<>>, implementing_trait |-> None, hash |-> None,
     symbol_type |-> "Unknown", original |-> <<>>]

Ok(symbol) == [status |-> "Ok", symbol |-> symbol, err |-> ""]
Err(message) == [status |-> "Err", symbol |-> NoSymbol, err |-> message]
Panic(message) == [status |-> "Panic", symbol |-> NoSymbol, err |-> message]

RECURSIVE ParseUsize(_)
\* str::parse::<usize> of a string of decimal digits; -1 for the Err of an
\* empty string.  (The inputs of the model have short length prefixes, so
\* the Err of an overflowing number does not arise.)
ParseUsize(digits) ==
    IF Len(digits) = 0 THEN -1
    ELSE IF Len(digits) = 1 THEN digits[1] - 48
    ELSE 10 * ParseUsize(SubSeq(digits, 1, Len(digits) - 1)) + (digits[Len(digits)] - 48)

clean_component(component) ==
    IF ~Contains(component, <<36>>) THEN component
    ELSE Replace(Replace(Replace(Replace(component,
             <<36, 76, 84, 36>>, <<60>>),          \* "$LT$" -> "<"
             <<36, 71, 84, 36>>, <<62>>),          \* "$GT$" -> ">"
             <<36, 117, 50, 48, 36>>, <<32>>),     \* "$u20$" -> " "
             <<36, 117, 50, 49, 36>>, <<33>>)      \* "$u21$" -> "!"

determine_symbol_type(path, name) ==
    LET AnyContains(p) == \E k \in 1 .. Len(path) : Contains(path[k], p)
        Of(last_component) ==
            IF \/ Contains(last_component, <<36, 76, 84, 36>>)      \* "$LT$"
               \/ Contains(last_component, <<60, 105, 109, 112, 108>>) \* "<impl"
               \/ Contains(last_component, <<97, 115>>)             \* "as"
               \/ Contains(name, <<36, 76, 84, 36>>)
            THEN "TraitImpl"
            ELSE IF Len(last_component) > 0 /\ last_component[1] \in Upper
            THEN IF \/ name = <<110, 101, 119>>                      \* "new"
                    \/ StartsWith(name, <<110, 101, 119, 95>>)       \* "new_"
                    \/ StartsWith(name, <<99, 114, 101, 97, 116, 101, 95>>) \* "create_"
                 THEN "StaticMethod"
                 ELSE IF \/ StartsWith(name, <<103, 101, 116, 95>>)  \* "get_"
                         \/ StartsWith(name, <<115, 101, 116, 95>>)  \* "set_"
                         \/ StartsWith(name, <<105, 115, 95>>)       \* "is_"
                         \/ StartsWith(name, <<104, 97, 115, 95>>)   \* "has_"
                 THEN "Accessor"
                 ELSE "Method"
            ELSE IF \E op \in { <<97, 100, 100>>, <<115, 117, 98>>, <<109, 117, 108>>,
                                <<100, 105, 118>>, <<101, 113>>, <<99, 109, 112>>,
                                <<105, 110, 100, 101, 120>>, <<100, 101, 114, 101, 102>> } :
                        Contains(name, op)  \* add sub mul div eq cmp index deref
            THEN "Operator"
            ELSE IF \/ Contains(name, <<100, 111, 95>>)                   \* "do_"
                    \/ AnyContains(<<104, 101, 108, 112, 101, 114>>)      \* "helper"
                    \/ AnyContains(<<117, 116, 105, 108>>)                \* "util"
            THEN "GenericHelper"
            ELSE IF \/ Contains(name, <<116, 121, 112, 101>>)             \* "type"
                    \/ name = <<100, 114, 111, 112>>                      \* "drop"
                    \/ name = <<99, 108, 111, 110, 101>>                  \* "clone"
                    \/ name = <<100, 101, 102, 97, 117, 108, 116>>        \* "default"
            THEN "TypeDef"
            ELSE "Function"
    IN  IF Len(path) = 0 THEN "Function" ELSE Of(path[Len(path)])

\* extract_hash: Some("h" + hex digits) or None.  char::is_digit(16) accepts
\* 'E', so the hex run takes a closing 'E' with it.
extract_hash(hash_part) ==
    LET n == Len(hash_part)
        Hash(length, hash_value) ==
            IF Len(hash_value) # length
            THEN IF Len(hash_value) >= 8 THEN Some(<<104>> \o hash_value) ELSE None
            ELSE Some(<<104>> \o hash_value)
        HexRun(length_start, i1, i2) ==
            IF i2 >= n \/ hash_part[i2 + 1] # 69 THEN None  \* 'E'
            ELSE Hash(ParseUsize(Slice(hash_part, length_start, i1)),
                      Slice(hash_part, i1 + 1, i2))
        LengthRun(length_start, i1) ==
            IF i1 >= n \/ hash_part[i1 + 1] # 104 THEN None \* 'h'
            ELSE IF i1 + 1 >= n THEN None
            ELSE HexRun(length_start, i1, i1 + 1 + RunLen(hash_part, i1 + 1, HexDigits))
        From(length_start) ==
            IF length_start >= n THEN None
            ELSE LengthRun(length_start,
                           length_start + RunLen(hash_part, length_start, Digits))
    IN  IF n < 4 THEN None ELSE From(RunLen(hash_part, 0, (0 .. 255) \ Digits))

RECURSIVE ParseComponents(_, _, _)
\* The component loop of parse_regular_function (and of the generic branch
\* of parse_trait_implementation) from index i on, parts being the
\* components pushed so far: where it stops, what it pushed, its Err.
ParseComponents(mangled, i, parts) ==
    LET Component(length_end, length) ==
            IF length_end + length > Len(mangled)
            THEN [i |-> length_end, parts |-> parts,
                  err |-> "Component length exceeds remaining string"]
            ELSE ParseComponents(mangled, length_end + length,
                     Append(parts, clean_component(
                         Slice(mangled, length_end, length_end + length))))
        Length(length_end) ==
            IF i >= Len(mangled) \/ i = length_end
            THEN [i |-> i, parts |-> parts, err |-> ""]
            ELSE Component(length_end, ParseUsize(Slice(mangled, i, length_end)))
    IN  Length(i + RunLen(mangled, i, Digits))

parse_type_path(type_str) ==
    LET Cleaned(path) ==
            SelectSeq([k \in 1 .. Len(path) |-> clean_component(path[k])],
                      LAMBDA s : s # <<>>)
    IN  Cleaned(Split(Replace(type_str, <<46, 46>>, <<58, 58>>), <<58, 58>>))

parse_specialized_generic(generic_str) ==
    Replace(Replace(Replace(clean_component(generic_str),
        <<60>>, <<60, 32>>),    \* "<" -> "< "
        <<62>>, <<32, 62>>),    \* ">" -> " >"
        <<44>>, <<44, 32>>)     \* "," -> ", "

parse_trait_implementation(mangled) ==
    LET n == Len(mangled)
        as_marker == <<36, 117, 50, 48, 36, 97, 115, 36, 117, 50, 48, 36>>  \* "$u20$as$u20$"
        gt == <<36, 71, 84, 36>>                                            \* "$GT$"
        \* the `as` branch, from the method's length prefix on
        Method(i0, as_pos, trait_path_end, method_length_end, i3) ==
            IF i3 > n THEN Panic("byte index out of range of the string")
            ELSE Ok([path |-> <<>>,
                     name |-> clean_component(Slice(mangled, method_length_end, i3)),
                     implementing_trait |-> Some(
                         [for_type |-> parse_type_path(Slice(mangled, i0, as_pos)),
                          trait_path |-> parse_type_path(
                              Slice(mangled, as_pos + 12, trait_path_end))]),
                     hash |-> extract_hash(Slice(mangled, i3, n)),
                     symbol_type |-> "TraitImpl",
                     original |-> mangled])
        MethodLength(i0, as_pos, trait_path_end, method_length_end) ==
            IF method_length_end >= n THEN Err("Missing method name length")
            ELSE IF method_length_end = trait_path_end + 4
            THEN Err("Invalid method name length")
            ELSE Method(i0, as_pos, trait_path_end, method_length_end,
                        method_length_end + ParseUsize(
                            Slice(mangled, trait_path_end + 4, method_length_end)))
        AsTrait(i0, as_pos, trait_path_end) ==
            IF trait_path_end = -1
            THEN Err("Missing trait implementation end marker $GT$")
            ELSE MethodLength(i0, as_pos, trait_path_end,
                     trait_path_end + 4 + RunLen(mangled, trait_path_end + 4, Digits))
        \* the generic branch
        Generic(i0, gt_pos, comps) ==
            IF comps.err # "" THEN Err(comps.err)
            ELSE IF Len(comps.parts) = 0 THEN Err("No components found after generic part")
            ELSE Ok([path |-> SubSeq(comps.parts, 1, Len(comps.parts) - 1),
                     name |-> comps.parts[Len(comps.parts)],
                     implementing_trait |-> Some(
                         [for_type |-> <<parse_specialized_generic(Slice(mangled, i0, gt_pos))>>,
                          trait_path |-> << <<83, 112, 101, 99, 105, 97, 108, 105, 122, 101, 100>> >>]),
                     hash |-> IF comps.i < n THEN extract_hash(Slice(mangled, comps.i, n))
                              ELSE None,
                     symbol_type |-> "GenericHelper",
                     original |-> mangled])
        Pattern(i0, as_pos, gt_pos) ==
            IF as_pos # -1 THEN AsTrait(i0, as_pos, FindFrom(mangled, as_pos + 12, gt))
            ELSE IF gt_pos # -1
            THEN Generic(i0, gt_pos, ParseComponents(mangled, gt_pos + 4, <<>>))
            ELSE Err("Unrecognized trait implementation pattern")
        Marker(i0) ==
            Pattern(i0, FindFrom(mangled, i0, as_marker), FindFrom(mangled, i0, gt))
        Length(length_end, is_prefixed) ==
            IF length_end = 3 THEN Err("Invalid length in trait implementation")
            ELSE IF ~is_prefixed /\ ~MatchesAt(mangled, length_end, <<36, 76, 84, 36>>)
            THEN Err("Expected trait implementation marker $LT$ not found")
            ELSE Marker(IF is_prefixed THEN length_end + 5 ELSE length_end + 4)
        Prefixed(length_end) ==
            Length(length_end, MatchesAt(mangled, length_end, <<95, 36, 76, 84, 36>>)) \* "_$LT$"
    IN  Prefixed(3 + RunLen(mangled, 3, Digits))

parse_regular_function(mangled) ==
    LET n == Len(mangled)
        Symbol(comps, parts, name) ==
            Ok([path |-> parts,
                name |-> name,
                implementing_trait |-> None,
                hash |-> IF comps.i < n THEN extract_hash(Slice(mangled, comps.i, n))
                         ELSE None,
                symbol_type |-> determine_symbol_type(parts, name),
                original |-> mangled])
        Components(comps) ==
            IF comps.err # "" THEN Err(comps.err)
            ELSE IF Len(comps.parts) = 0 THEN Err("No components found in mangled name")
            ELSE Symbol(comps, SubSeq(comps.parts, 1, Len(comps.parts) - 1),
                        comps.parts[Len(comps.parts)])
        Regular(as_trait) ==
            IF as_trait.status \in {"Ok", "Panic"} THEN as_trait
            ELSE Components(ParseComponents(mangled, 3, <<>>))
    IN  Regular(IF Contains(Slice(mangled, 3, n), <<36, 76, 84, 36, 105, 109, 112, 108>>) \* "$LT$impl"
                THEN parse_trait_implementation(mangled)
                ELSE Err(""))

demangle(mangled) ==
    LET Dispatch(body) ==
            IF Len(body) > 0 /\ body[1] \in Digits
            THEN IF Len(body) > 1 /\ body[2] \in Digits
                 THEN parse_trait_implementation(mangled)
                 ELSE IF Contains(body, <<36, 76, 84, 36>>) \/ Contains(body, <<105, 109, 112, 108>>)
                 THEN parse_trait_implementation(mangled)
                 ELSE parse_regular_function(mangled)
            ELSE parse_regular_function(mangled)
    IN  IF ~StartsWith(mangled, <<95, 90, 78>>) \* "_ZN"
        THEN Err("Not a valid mangled name: missing _ZN prefix")
        ELSE Dispatch(Slice(mangled, 3, Len(mangled)))


\* One iteration of the `while let` loop of extract_mangled_names, from the
\* scan position start_idx with the tokens pushed so far: the new position
\* and tokens, and whether the loop is left (no `_ZN` is found, or `break`).
ExtractNamesStep(text, start_idx, pushed) ==
    LET zn == <<95, 90, 78>> \* "_ZN"
        Name(name_start, gap, next_pattern, end_pos) ==
            IF end_pos # -1
            THEN IF next_pattern = -1 \/ end_pos + 1 <= next_pattern
                 THEN [start_idx |-> end_pos + 1,
                       pushed |-> Append(gap, Slice(text, name_start, end_pos + 1)),
                       left |-> FALSE]
                 ELSE [start_idx |-> name_start, pushed |-> gap, left |-> FALSE]
            ELSE IF next_pattern # -1
            THEN [start_idx |-> next_pattern,
                  pushed |-> Append(gap, Slice(text, name_start, next_pattern)),
                  left |-> FALSE]
            ELSE [start_idx |-> name_start,
                  pushed |-> Append(gap, Slice(text, name_start, Len(text))),
                  left |-> TRUE]
        At(name_start) ==
            IF name_start = -1
            THEN [start_idx |-> start_idx, pushed |-> pushed, left |-> TRUE]
            ELSE Name(name_start,
                      IF name_start > start_idx /\ start_idx > 0
                      THEN Append(pushed, Slice(text, start_idx, name_start))
                      ELSE pushed,
                      FindFrom(text, name_start + 3, zn),
                      FindFrom(text, name_start, <<69>>)) \* 'E'
    IN  At(FindFrom(text, start_idx, zn))

RECURSIVE ExtractNamesLoop(_, _, _)
\* The loop run to its end: Some(position and tokens at loop exit), or None
\* when an iteration changes nothing, which the loop then repeats for ever.
ExtractNamesLoop(text, start_idx, pushed) ==
    LET After(step) ==
            IF step.left THEN Some(step)
            ELSE IF step.start_idx = start_idx /\ step.pushed = pushed THEN None
            ELSE ExtractNamesLoop(text, step.start_idx, step.pushed)
    IN  After(ExtractNamesStep(text, start_idx, pushed))

\* extract_mangled_names: Some(the tokens returned), None when the call
\* does not return.
extract_mangled_names(text) ==
    LET Valid(all) ==
            SelectSeq(all, LAMBDA name :
                StartsWith(name, <<95, 90, 78>>) /\ EndsWith(name, <<69>>))
        Rest(last) ==
            Valid(IF last.start_idx < Len(text)
                  THEN Append(last.pushed, Slice(text, last.start_idx, Len(text)))
                  ELSE last.pushed)
        After(loop) == IF loop = None THEN None ELSE Some(Rest(loop[1]))
    IN  After(ExtractNamesLoop(text, 0, <<>>))

-----------------------------------------------------------------------------
(* crates/core/src/parsing/lld.rs                                          *)

\* A filter that skips a symbol only when its first path segment is itself
\* a library name, which C12 rules out.
LLDDefinitionOfExactLib(symbol, program_name) ==
    IF Len(symbol.path) = 0 THEN {}
    ELSE IF symbol.path[1] \in STD_LIB_NAMES \cup ANCILLARY_LIB_NAMES THEN {}
    ELSE IF program_name # None /\ symbol.path[1] # program_name[1] THEN {}
    ELSE {[ident |-> IF Len(symbol.path) > 1
                     THEN Join(symbol.path, <<58, 58>>) \* "::"
                     ELSE symbol.path[1],
           kind |-> symbol.symbol_type,
           hash |-> Some(symbol.name)]}

\* The body of the `for symbol in symbols` loop of extract_definitions: the
\* Definition a symbol contributes, as a set (empty when it is skipped).
LLDDefinitionOf(symbol, program_name) ==
    LET IsLib(libs) == \E lib \in libs : StartsWith(symbol.path[1], lib)
    IN  IF Len(symbol.path) = 0 THEN {}
        ELSE IF IsLib(STD_LIB_NAMES) \/ IsLib(ANCILLARY_LIB_NAMES) THEN {}
        ELSE IF program_name # None /\ symbol.path[1] # program_name[1] THEN {}
        ELSE {[ident |-> IF Len(symbol.path) > 1
                         THEN Join(symbol.path, <<58, 58>>) \* "::"
                         ELSE symbol.path[1],
               kind |-> symbol.symbol_type,
               hash |-> Some(symbol.name)]}

RECURSIVE DemangleAll(_, _)
\* LLDParser::extract_demangled_symbols over the tokens from index k on:
\* Some(symbols of the tokens that demangle), None when a demangle panics.
DemangleAll(tokens, k) ==
    LET Cons(d, rest) ==
            IF d.status = "Panic" \/ rest = None THEN None
            ELSE IF d.status = "Ok" THEN Some(<<d.symbol>> \o rest[1])
            ELSE rest
    IN  IF k > Len(tokens) THEN Some(<<>>)
        ELSE Cons(demangle(tokens[k]), DemangleAll(tokens, k + 1))

\* LLDParser::extract_definitions: how the call ends ("Returned",
\* "Panicked" or "Diverged") and the definitions it returns.
LLDExtractDefinitions(text, program_name) ==
    LET Definitions(syms) ==
            IF syms = None THEN [outcome |-> "Panicked", definitions |-> {}]
            ELSE [outcome |-> "Returned",
                  definitions |-> UNION {LLDDefinitionOf(syms[1][k], program_name) :
                                            k \in 1 .. Len(syms[1])}]
        Symbols(tokens) ==
            IF tokens = None THEN [outcome |-> "Diverged", definitions |-> {}]
            ELSE Definitions(DemangleAll(tokens[1], 1))
    IN  Symbols(extract_mangled_names(text))

-----------------------------------------------------------------------------
(* crates/core/src/traits/parser.rs: the AugerParser trait, dispatched on  *)
(* the three implementations.                                              *)

LLDParser(program_name) == [kind |-> "lld", program_name |-> program_name]
AnchorParser == [kind |-> "anchor", program_name |-> None]
NativeParser == [kind |-> "native", program_name |-> None]

can_handle(parser, text) ==
    CASE parser.kind = "lld" -> TRUE
      [] parser.kind = "anchor" -> AnchorCanHandle(text)
      [] parser.kind = "native" -> NativeCanHandle(text)

program_type(parser) ==
    CASE parser.kind = "lld" -> "sbf"
      [] parser.kind = "anchor" -> "anchor"
      [] parser.kind = "native" -> "native"

parse_instructions(parser, text) ==
    CASE parser.kind = "lld" -> {}
      [] parser.kind = "anchor" -> AnchorParseInstructions(text)
      [] parser.kind = "native" -> NativeParseInstructions(text)

\* Parsers none of which sets a harvested name apart as protected, which
\* C28 rules out for the Anchor parser.
GetProtectedOfNoParser(parser, instructions) == {}

get_protected_instructions(parser, instructions) ==
    CASE parser.kind = "lld" -> {}
      [] parser.kind = "anchor" -> {name \in instructions : is_protected(name)}
      [] parser.kind = "native" -> {}

parser_source_files(parser, text) ==
    CASE parser.kind = "lld" -> {}
      [] parser.kind = "anchor" -> AnchorExtractSourceFiles(text)
      [] parser.kind = "native" -> NativeExtractSourceFiles(text)

parser_definitions(parser, text) ==
    CASE parser.kind = "lld" -> LLDExtractDefinitions(text, parser.program_name)
      [] parser.kind = "anchor" -> [outcome |-> "Returned", definitions |-> {}]
      [] parser.kind = "native" -> [outcome |-> "Returned", definitions |-> {}]

-----------------------------------------------------------------------------
(* crates/core/src/parsing/base_parser.rs                                  *)

\* BaseSBFParser::new
DefaultParsers == <<LLDParser(None), AnchorParser, NativeParser>>

\* The indices of the parsers the `if parser.can_handle(text)` of the
\* driver's loops lets through.
Handling(ps, text) == {k \in 1 .. Len(ps) : can_handle(ps[k], text)}

\* A driver that stops at the first parser that can handle the text, which
\* C1 rules out.
ExtractInstructionsFirstOnly(ps, text) ==
    LET Collect(first, all_instructions, all_protected_instructions) ==
            [instructions |-> all_instructions \ all_protected_instructions,
             protected_instructions |-> all_protected_instructions,
             program_type |-> IF first = {} THEN "unknown"
                              ELSE program_type(ps[CHOOSE k \in first : TRUE])]
        Parsed(first, parsed) ==
            Collect(first, UNION {r.instructions : r \in parsed},
                    UNION {get_protected_instructions(ps[r.k], r.instructions) :
                              r \in parsed})
        First(first) ==
            Parsed(first, {[k |-> k, instructions |-> parse_instructions(ps[k], text)] :
                              k \in first})
        Of(found) ==
            First(IF found = {} THEN {} ELSE {CHOOSE k \in found : \A j \in found : k <= j})
    IN  Of(Handling(ps, text))

\* BaseSBFParser::extract_instructions
extract_instructions(ps, text) ==
    LET Collect(found, all_instructions, all_protected_instructions) ==
            [instructions |-> all_instructions \ all_protected_instructions,
             protected_instructions |-> all_protected_instructions,
             program_type |-> IF found = {} THEN "unknown"
                              ELSE program_type(ps[CHOOSE k \in found :
                                                      \A j \in found : k <= j])]
        Parsed(found, parsed) ==
            Collect(found, UNION {r.instructions : r \in parsed},
                    UNION {get_protected_instructions(ps[r.k], r.instructions) :
                              r \in parsed})
        Of(found) ==
            Parsed(found, {[k |-> k, instructions |-> parse_instructions(ps[k], text)] :
                              k \in found})
    IN  Of(Handling(ps, text))

\* BaseSBFParser::extract_source_files
extract_source_files(ps, text) ==
    UNION {parser_source_files(ps[k], text) : k \in Handling(ps, text)}

\* The definitions loop of extract_from_bytes: the first parser in list
\* order whose extract_definitions does not return ends the whole call.
extract_definitions(ps, text) ==
    LET First(stuck) == CHOOSE r \in stuck : \A q \in stuck : r.k <= q.k
        Loop(results, stuck) ==
            IF stuck # {}
            THEN [outcome |-> First(stuck).extracted.outcome, definitions |-> {}]
            ELSE [outcome |-> "Returned",
                  definitions |-> UNION {r.extracted.definitions : r \in results}]
        Of(results) == Loop(results, {r \in results : r.extracted.outcome # "Returned"})
    IN  Of({[k |-> k, extracted |-> parser_definitions(ps[k], text)] :
               k \in Handling(ps, text)})

\* A normalization that rewrites the path of a file of another project but
\* leaves its project, which C16 rules out.
NormalizeSourceFilesPathOnly(source_files, program_name) ==
    {IF program_name # None /\ file.project # program_name[1]
     THEN [path |-> program_name[1] \o <<47>> \o file.relative_path,
           project |-> file.project,
           relative_path |-> file.relative_path]
     ELSE file : file \in source_files}

\* BaseSBFParser::normalize_source_files
normalize_source_files(source_files, program_name) ==
    {IF program_name # None /\ file.project # program_name[1]
     THEN [path |-> program_name[1] \o <<47>> \o file.relative_path,
           project |-> program_name[1],
           relative_path |-> file.relative_path]
     ELSE file : file \in source_files}

\* u8::is_ascii() && u8::is_ascii_graphic()
IsAsciiGraphic(b) == b >= 33 /\ b <= 126

\* A scan that leaves NUL bytes out of the text, which C5 rules out.
PushByteDropNul(b, replace_non_printable) ==
    IF b = 0 THEN <<>>
    ELSE IF b >= 33 /\ b <= 126 THEN <<b>>
    ELSE IF replace_non_printable THEN <<32>> ELSE <<>>

\* What one byte adds to extracted_text.
PushByte(b, replace_non_printable) ==
    IF replace_non_printable
    THEN IF b = 0 THEN <<32>>
         ELSE IF IsAsciiGraphic(b) THEN <<b>> ELSE <<32>>
    ELSE IF IsAsciiGraphic(b) THEN <<b>> ELSE <<>>

\* What the bytes data[from .. to - 1] add to extracted_text, one push
\* per byte.
Pushed(data, from, to, replace_non_printable) ==
    LET Of(kept) ==
            [i \in 1 .. Len(kept) |-> PushByte(kept[i], replace_non_printable)[1]]
    IN  Of(SelectSeq(SubSeq(data, from + 1, to),
                     LAMBDA b : PushByte(b, replace_non_printable) # <<>>))

\* A scan whose count of 0xFF bytes is not reset by another byte, which C4
\* rules out.
ScanLoopNoReset(data, cfg, pos, consecutive_ff_count, extracted_text) ==
    LET CountAt(p) ==
            consecutive_ff_count
                + Cardinality({q \in pos .. p - 1 : data[q + 1] = 255})
        Left(end) ==
            [pos |-> end,
             extracted_text |->
                 extracted_text \o Pushed(data, pos, end, cfg.replace_non_printable)]
        First(ends) == Left(CHOOSE p \in ends : \A q \in ends : p <= q)
    IN  IF pos >= Len(data) THEN [pos |-> pos, extracted_text |-> extracted_text]
        ELSE First({p \in pos .. Len(data) :
                       p = Len(data) \/ CountAt(p) >= cfg.ff_sequence_length})

\* The `while` loop of extract_from_bytes from the state (pos,
\* consecutive_ff_count, extracted_text): pos and extracted_text after it.
\* The loop runs an iteration at every index from pos on, each pushing its
\* byte, and is left at the first index p where pos < data.len() or
\* consecutive_ff_count < ff_sequence_length fails.  The count before the
\* iteration at p is the number of 0xFF bytes since the last other byte:
\* the count the loop started with plus p - pos when every byte so far was
\* 0xFF, the length of the run of 0xFF bytes that ends at p otherwise.
ScanLoop(data, cfg, pos, consecutive_ff_count, extracted_text) ==
    LET AllFF(from, to) == \A q \in from .. to - 1 : data[q + 1] = 255
        CountReached(p) ==
            \/ /\ consecutive_ff_count + (p - pos) >= cfg.ff_sequence_length
               /\ AllFF(pos, p)
            \/ /\ p - cfg.ff_sequence_length >= pos
               /\ AllFF(p - cfg.ff_sequence_length, p)
        Left(end) ==
            [pos |-> end,
             extracted_text |->
                 extracted_text \o Pushed(data, pos, end, cfg.replace_non_printable)]
        First(ends) == Left(CHOOSE p \in ends : \A q \in ends : p <= q)
    IN  IF pos >= Len(data) THEN [pos |-> pos, extracted_text |-> extracted_text]
        ELSE First({p \in pos .. Len(data) : p = Len(data) \/ CountReached(p)})

\* A filter without the bounds on the length, which C3 rules out.
FilterFalsePositivesOnly(instructions) ==
    {s \in instructions : s \notin FALSE_POSITIVES}

\* The filter of instructions_vec.
FilterInstructions(instructions) ==
    {s \in instructions : NameLenOk(s) /\ s \notin FALSE_POSITIVES}

NoReport ==
    [text |-> <<>>, instructions |-> {}, protected_instructions |-> {},
     definitions |-> {}, files |-> {},
     stats |-> [start_offset |-> 0, end_position |-> 0, bytes_processed |-> 0,
                instruction_count |-> 0, file_count |-> 0],
     program_name |-> None, program_type |-> ""]

NoResult == [status |-> "None", error |-> "", report |-> NoReport]
ErrResult(e) == [status |-> "Err", error |-> e, report |-> NoReport]
OkResult(r) == [status |-> "Ok", error |-> "", report |-> r]

\* The report extract_from_bytes assembles once the scan and the parsers
\* are through, for the program_name that find_main_project returned.
\* (syscalls, custom_linker, strings, disassembly and type_report come from
\* the decoder's sections and are not part of this record.)
BuildReport(offset, scan, ins, source_files, definitions, program_name) ==
    LET Report(instructions_vec, files_vec) ==
            [text |-> scan.extracted_text,
             instructions |-> instructions_vec,
             protected_instructions |-> ins.protected_instructions,
             definitions |-> definitions,
             files |-> files_vec,
             stats |-> [start_offset |-> offset,
                        end_position |-> scan.pos,
                        bytes_processed |-> scan.pos - offset,
                        instruction_count |-> Cardinality(instructions_vec),
                        file_count |-> Cardinality(files_vec)],
             program_name |-> program_name,
             program_type |-> ins.program_type]
    IN  Report(FilterInstructions(ins.instructions),
               normalize_source_files(source_files, program_name))

\* BaseSBFParser::extract_from_bytes: the ways a call can end, each with
\* how it ends ("returned", "panicked", "diverged") and what it returns.
\* (config.recover_types only decodes the bytes a second time.)
ExtractOutcomes(data, headers, decodes, cfg, ps) ==
    LET Reports(offset, scan, ins, source_files, defs) ==
            {[pc |-> "returned",
              result |-> OkResult(BuildReport(offset, scan, ins, source_files,
                                              defs.definitions, program_name))] :
                program_name \in find_main_project(source_files)}
        Parsed(offset, scan, defs) ==
            IF defs.outcome = "Panicked" THEN {[pc |-> "panicked", result |-> NoResult]}
            ELSE IF defs.outcome = "Diverged" THEN {[pc |-> "diverged", result |-> NoResult]}
            ELSE Reports(offset, scan, extract_instructions(ps, scan.extracted_text),
                         extract_source_files(ps, scan.extracted_text), defs)
        Scanned(offset, scan) ==
            IF scan.extracted_text = <<>>
            THEN {[pc |-> "returned", result |-> ErrResult("NoTextExtracted")]}
            ELSE Parsed(offset, scan, extract_definitions(ps, scan.extracted_text))
        From(offset) == Scanned(offset, ScanLoop(data, cfg, offset, 0, <<>>))
    IN  IF ~decodes
        THEN {[pc |-> "returned", result |-> ErrResult("ProgramParseError")]}
        ELSE IF Len(headers) <= cfg.program_header_index
        THEN {[pc |-> "returned", result |-> ErrResult("NotEnoughProgramHeaders")]}
        ELSE From(headers[cfg.program_header_index + 1])

-----------------------------------------------------------------------------
(* crates/core/src/memory.rs                                               *)
(* The decoder (ezbpf_core) is outside the repository: a decoded program   *)
(* is an input, each section with its label, file offset, bytes and the    *)
(* instructions the decoder read from them.                                *)

\* ezbpf_core::opcodes::OpCode of an opcode byte, for the opcodes the code
\* tells apart and one that it does not; "Invalid" for a byte that is no
\* opcode.
OpCodeOf(b) ==
    CASE b = 24 -> "Lddw"
      [] b = 133 -> "Call"
      [] b = 5 -> "Ja"
      [] b = 149 -> "Exit"
      [] b = 21 -> "JeqImm"
      [] b = 183 -> "Mov64Imm"
      [] OTHER -> "Invalid"

\* A u64 is held as its four 16-bit limbs, lowest first.
U64(n) == <<n % 65536, n \div 65536, 0, 0>>

\* u64::wrapping_add
U64Add(a, b) ==
    LET c1 == (a[1] + b[1]) \div 65536
        c2 == (a[2] + b[2] + c1) \div 65536
        c3 == (a[3] + b[3] + c2) \div 65536
    IN  <<(a[1] + b[1]) % 65536, (a[2] + b[2] + c1) % 65536,
          (a[3] + b[3] + c2) % 65536, (a[4] + b[4] + c3) % 65536>>

\* a < b and a <= b on u64
U64Lt(a, b) ==
    \E k \in 1 .. 4 : a[k] < b[k] /\ \A j \in (k + 1) .. 4 : a[j] = b[j]

U64Le(a, b) == a = b \/ U64Lt(a, b)

\* The 32 bits of the four bytes of content from index pos on, little
\* endian, as two 16-bit limbs.
U32FromLeBytes(content, pos) ==
    <<content[pos + 1] + 256 * content[pos + 2],
      content[pos + 3] + 256 * content[pos + 4]>>

\* `as i32` of 32 bits (two's complement).
AsI32(w) == IF w[2] >= 32768 THEN w[1] + 65536 * (w[2] - 65536)
            ELSE w[1] + 65536 * w[2]

\* `as u64` of an i32 (sign extension).
AsU64(v) ==
    IF v >= 0 THEN U64(v)
    ELSE <<v % 65536, (v \div 65536) % 65536, 65535, 65535>>

\* Ix::from_bytes on the slot of content at pos, as find_ebpf_references
\* calls it: on 16 bytes when there are that many, else on 8.  An Lddw of
\* which only the first 8 bytes are there is an instruction or not as the
\* decoder has it (short_lddw).
IxFromBytes(content, pos, short_lddw) ==
    LET Of(op) ==
            IF op = "Invalid" THEN None
            ELSE IF op = "Lddw" /\ pos + 16 > Len(content) /\ ~short_lddw THEN None
            ELSE Some([op |-> op, imm |-> U32FromLeBytes(content, pos + 4)])
    IN  Of(OpCodeOf(content[pos + 1]))

\* The RichInstruction MemoryMap::new pushes for a decoded instruction.
RichInstruction(address, ix, references) ==
    [address |-> address, opcode |-> ix.op, imm |-> AsI32(ix.imm),
     references |-> references]

RECURSIVE SectionInstructions(_, _, _)
\* The `for ix in ixs.iter()` loop of MemoryMap::new from index k on, with
\* the cursor at mem_addr.
SectionInstructions(ixs, k, mem_addr) ==
    IF k > Len(ixs) THEN <<>>
    ELSE <<RichInstruction(mem_addr, ixs[k], None)>>
             \o SectionInstructions(ixs, k + 1,
                    U64Add(mem_addr, U64(IF ixs[k].op = "Lddw" THEN 16 ELSE 8)))

RECURSIVE DecodedInstructions(_, _)
\* The instructions the `for section` loop of MemoryMap::new pushes, from
\* section k on.
DecodedInstructions(entries, k) ==
    IF k > Len(entries) THEN <<>>
    ELSE SectionInstructions(entries[k].ixs, 1, U64(entries[k].offset))
             \o DecodedInstructions(entries, k + 1)

\* map.sections after the loop: of the sections that lie within the data,
\* the last one of each label.
RecordedSections(entries, data_len) ==
    LET Fits(k) == entries[k].offset + Len(entries[k].data) <= data_len
        Last(label) ==
            CHOOSE k \in 1 .. Len(entries) :
                /\ entries[k].label = label /\ Fits(k)
                /\ \A j \in 1 .. Len(entries) :
                       (entries[j].label = label /\ Fits(j)) => j <= k
    IN  [label \in {entries[k].label : k \in {j \in 1 .. Len(entries) : Fits(j)}} |->
            [addr |-> U64(entries[Last(label)].offset),
             size |-> Len(entries[Last(label)].data),
             content |-> entries[Last(label)].data]]

\* HashMap::insert
Insert(map, key, value) ==
    [k \in DOMAIN map \cup {key} |-> IF k = key THEN value ELSE map[k]]

\* The bytes scan_for_strings takes for printable.
PrintableBytes == (32 .. 126) \cup {9, 10}

RECURSIVE ScanSection(_, _, _, _)
\* The `while pos < content.len()` loop of scan_for_strings on one section,
\* from pos on: self.strings after it.
ScanSection(content, base_addr, pos, strings) ==
    LET Run(end) ==
            ScanSection(content, base_addr, end + 1,
                IF end < Len(content) /\ content[end + 1] = 0 /\ end - pos > 3
                THEN Insert(strings, U64Add(base_addr, U64(pos)), Slice(content, pos, end))
                ELSE strings)
    IN  IF pos >= Len(content) THEN strings
        ELSE Run(pos + RunLen(content, pos, PrintableBytes))

RECURSIVE ScanForStrings(_, _, _)
\* scan_for_strings over the sections named in labels.  (Sections whose
\* strings would share an address are not among the inputs, so the order
\* in which the HashMap yields the sections does not show.)
ScanForStrings(sections, labels, strings) ==
    LET Rest(label) ==
            ScanForStrings(sections, labels \ {label},
                IF label = ".text" THEN strings
                ELSE ScanSection(sections[label].content, sections[label].addr, 0, strings))
    IN  IF labels = {} THEN strings ELSE Rest(CHOOSE label \in labels : TRUE)

RECURSIVE ReferencesLoopUnrecorded(_, _, _, _, _, _, _)
\* find_ebpf_references binding an Lddw to its string without recording the
\* instruction's address under the string's address.
ReferencesLoopUnrecorded(content, text_addr, short_lddw, strings, pos, references, instructions) ==
    LET Bound(imm_64, ix) ==
            ReferencesLoopUnrecorded(content, text_addr, short_lddw, strings, pos + 16,
                references,
                Append(instructions,
                    RichInstruction(U64Add(text_addr, U64(pos)), ix,
                        IF imm_64 \in DOMAIN strings THEN Some(strings[imm_64])
                        ELSE None)))
        Parsed(parsed_instruction) ==
            IF parsed_instruction = None
            THEN ReferencesLoopUnrecorded(content, text_addr, short_lddw, strings, pos + 8,
                                references, instructions)
            ELSE IF parsed_instruction[1].op = "Lddw" /\ pos + 16 <= Len(content)
            THEN Bound(U32FromLeBytes(content, pos + 4)
                           \o U32FromLeBytes(content, pos + 12),
                       parsed_instruction[1])
            ELSE ReferencesLoopUnrecorded(content, text_addr, short_lddw, strings, pos + 8,
                     references,
                     Append(instructions,
                         RichInstruction(U64Add(text_addr, U64(pos)),
                                         parsed_instruction[1], None)))
    IN  IF pos + 8 > Len(content)
        THEN [references |-> references, instructions |-> instructions]
        ELSE Parsed(IxFromBytes(content, pos, short_lddw))

RECURSIVE ReferencesLoop(_, _, _, _, _, _, _)
\* The `while pos + 8 <= content.len()` loop of find_ebpf_references from
\* pos on: self.references and self.instructions after it.
ReferencesLoop(content, text_addr, short_lddw, strings, pos, references, instructions) ==
    LET Bound(imm_64, ix) ==
            ReferencesLoop(content, text_addr, short_lddw, strings, pos + 16,
                IF imm_64 \in DOMAIN strings
                THEN Insert(references, imm_64,
                         Append(IF imm_64 \in DOMAIN references
                                THEN references[imm_64] ELSE <<>>,
                                U64Add(text_addr, U64(pos))))
                ELSE references,
                Append(instructions,
                    RichInstruction(U64Add(text_addr, U64(pos)), ix,
                        IF imm_64 \in DOMAIN strings THEN Some(strings[imm_64])
                        ELSE None)))
        Parsed(parsed_instruction) ==
            IF parsed_instruction = None
            THEN ReferencesLoop(content, text_addr, short_lddw, strings, pos + 8,
                                references, instructions)
            ELSE IF parsed_instruction[1].op = "Lddw" /\ pos + 16 <= Len(content)
            THEN Bound(U32FromLeBytes(content, pos + 4)
                           \o U32FromLeBytes(content, pos + 12),
                       parsed_instruction[1])
            ELSE ReferencesLoop(content, text_addr, short_lddw, strings, pos + 8,
                     references,
                     Append(instructions,
                         RichInstruction(U64Add(text_addr, U64(pos)),
                                         parsed_instruction[1], None)))
    IN  IF pos + 8 > Len(content)
        THEN [references |-> references, instructions |-> instructions]
        ELSE Parsed(IxFromBytes(content, pos, short_lddw))

\* MemoryMap::new
MemoryMapNew(p) ==
    LET Map(sections, strings, found) ==
            [built |-> TRUE, sections |-> sections, strings |-> strings,
             references |-> found.references, instructions |-> found.instructions]
        Scanned(sections, strings, instructions) ==
            Map(sections, strings,
                IF ".text" \in DOMAIN sections
                THEN ReferencesLoop(sections[".text"].content, sections[".text"].addr,
                         p.short_lddw, strings, 0, <<>>, instructions)
                ELSE [references |-> <<>>, instructions |-> instructions])
        Recorded(sections) ==
            Scanned(sections, ScanForStrings(sections, DOMAIN sections, <<>>),
                    DecodedInstructions(p.section_header_entries, 1))
    IN  Recorded(RecordedSections(p.section_header_entries, p.data_len))

-----------------------------------------------------------------------------
(* crates/core/src/analyzers/base.rs                                       *)

\* is_func_start of the instruction at index i (from 1).
IsFuncStart(instructions, i) ==
    \/ i = 1
    \/ instructions[i - 1].opcode = "Ja"
    \/ instructions[i - 1].opcode = "Exit"
    \/ \E k \in 1 .. Len(instructions) :
           /\ instructions[k].opcode = "Call"
           /\ AsU64(instructions[k].imm) = instructions[i].address

RECURSIVE BaseFindLoopByteSizes(_, _, _, _)
\* find_functions counting the bytes of every instruction of a block, its
\* head too, 16 for an Lddw.
BaseFindLoopByteSizes(instructions, i, functions_so_far, current_block) ==
    LET Bytes(instr) == IF instr.opcode = "Lddw" THEN 16 ELSE 8
    IN  IF i > Len(instructions) THEN functions_so_far \o current_block
        ELSE IF IsFuncStart(instructions, i)
        THEN BaseFindLoopByteSizes(instructions, i + 1,
                 functions_so_far \o current_block,
                 Some([address |-> instructions[i].address,
                       name |-> <<"func_", instructions[i].address>>,
                       size |-> Bytes(instructions[i]),
                       instructions |-> <<instructions[i]>>]))
        ELSE IF current_block # None
        THEN BaseFindLoopByteSizes(instructions, i + 1, functions_so_far,
                 Some([current_block[1] EXCEPT
                          !.instructions = Append(@, instructions[i]),
                          !.size = @ + Bytes(instructions[i])]))
        ELSE BaseFindLoopByteSizes(instructions, i + 1, functions_so_far,
                                   current_block)

RECURSIVE BaseFindLoop(_, _, _, _)
\* The `for (i, instr)` loop of BaseAnalyzer::find_functions from index i
\* on, and the push of the last open block after it.
BaseFindLoop(instructions, i, functions_so_far, current_block) ==
    IF i > Len(instructions) THEN functions_so_far \o current_block
    ELSE IF IsFuncStart(instructions, i)
    THEN BaseFindLoop(instructions, i + 1, functions_so_far \o current_block,
             Some([address |-> instructions[i].address,
                   name |-> <<"func_", instructions[i].address>>,
                   size |-> 0,
                   instructions |-> <<instructions[i]>>]))
    ELSE IF current_block # None
    THEN BaseFindLoop(instructions, i + 1, functions_so_far,
             Some([current_block[1] EXCEPT
                      !.instructions = Append(@, instructions[i]),
                      !.size = @ + 8]))
    ELSE BaseFindLoop(instructions, i + 1, functions_so_far, current_block)

\* BaseAnalyzer::find_functions without the push of the last open block
\* after the loop.
BaseFindFunctionsWithoutLastPush(map) ==
    LET Closed(found) == SubSeq(found, 1, Len(found) - 1)
    IN  Closed(BaseFindLoop(map.instructions, 1, <<>>, None))

\* BaseAnalyzer::find_functions
BaseFindFunctions(map) == BaseFindLoop(map.instructions, 1, <<>>, None)

\* The opcodes BaseAnalyzer::map_control_flow takes for conditional jumps
\* (of the opcodes of the model).
ConditionalJumps == {"JeqImm"}

\* map_control_flow taking a jump for relative to the jump itself, not to
\* the slot after it.
BaseEdgesOfFromJump(function_list, function, instr) ==
    LET Edge(kind, conditional, target_addr) ==
            IF \E k \in 1 .. Len(function_list) : function_list[k].address = target_addr
            THEN <<[kind |-> kind, from_addr |-> instr.address, to_addr |-> target_addr,
                    from_func |-> function.address, to_func |-> target_addr,
                    conditional |-> conditional]>>
            ELSE <<>>
    IN  IF instr.opcode = "Call" THEN Edge("Call", FALSE, AsU64(instr.imm))
        ELSE IF instr.opcode \in ConditionalJumps
        THEN Edge("Jump", TRUE, U64Add(instr.address, AsU64(instr.imm)))
        ELSE IF instr.opcode \in {"Ja", "Exit"}
        THEN Edge("Jump", FALSE, U64Add(instr.address, AsU64(instr.imm)))
        ELSE <<>>

\* What the `match instr.opcode` of BaseAnalyzer::map_control_flow pushes
\* for one instruction of a function: one edge or none.
BaseEdgesOf(function_list, function, instr) ==
    LET Edge(kind, conditional, target_addr) ==
            IF \E k \in 1 .. Len(function_list) : function_list[k].address = target_addr
            THEN <<[kind |-> kind, from_addr |-> instr.address, to_addr |-> target_addr,
                    from_func |-> function.address, to_func |-> target_addr,
                    conditional |-> conditional]>>
            ELSE <<>>
    IN  IF instr.opcode = "Call" THEN Edge("Call", FALSE, AsU64(instr.imm))
        ELSE IF instr.opcode \in ConditionalJumps
        THEN Edge("Jump", TRUE, U64Add(U64Add(instr.address, U64(8)), AsU64(instr.imm)))
        ELSE IF instr.opcode \in {"Ja", "Exit"}
        THEN Edge("Jump", FALSE, U64Add(U64Add(instr.address, U64(8)), AsU64(instr.imm)))
        ELSE <<>>

RECURSIVE BaseFlowLoop(_, _, _)
\* The loops of BaseAnalyzer::map_control_flow from instruction i of
\* function f on.
BaseFlowLoop(function_list, f, i) ==
    IF f > Len(function_list) THEN <<>>
    ELSE IF i > Len(function_list[f].instructions)
    THEN BaseFlowLoop(function_list, f + 1, 1)
    ELSE BaseEdgesOf(function_list, function_list[f], function_list[f].instructions[i])
             \o BaseFlowLoop(function_list, f, i + 1)

\* BaseAnalyzer::map_control_flow
BaseMapControlFlow(map, function_list) == BaseFlowLoop(function_list, 1, 1)

\* Whether an `instr.address + 8` of BaseAnalyzer::map_control_flow
\* overflows: with overflow checks (a debug build) the function panics
\* there, without them (a release build) the sum wraps.
BaseMapControlFlowOverflows(function_list) ==
    \E f \in 1 .. Len(function_list) :
        \E i \in 1 .. Len(function_list[f].instructions) :
            /\ function_list[f].instructions[i].opcode
                   \in ConditionalJumps \cup {"Ja", "Exit"}
            /\ U64Lt(U64Add(function_list[f].instructions[i].address, U64(8)),
                     function_list[f].instructions[i].address)

-----------------------------------------------------------------------------
(* crates/core/src/analyzers/syscalls.rs                                   *)

\* The keys of SyscallAnalyzer::new's syscall_map.
SyscallNumbers == 0 .. 11

\* get_syscall_name(instr.imm).is_some() for a Call
IsSyscall(instr) == instr.opcode = "Call" /\ instr.imm \in SyscallNumbers

\* SyscallAnalyzer::find_functions
SyscallFindFunctions(map) ==
    LET Block(instr) ==
            [address |-> instr.address, name |-> <<"syscall", instr.imm>>,
             size |-> 8, instructions |-> <<instr>>]
        Found(calls) == [k \in 1 .. Len(calls) |-> Block(calls[k])]
    IN  Found(SelectSeq(map.instructions, IsSyscall))

\* SyscallAnalyzer::map_control_flow
SyscallMapControlFlow(map, function_list) ==
    LET Holds(k, instr) ==
            /\ U64Le(function_list[k].address, instr.address)
            /\ U64Lt(instr.address,
                     U64Add(function_list[k].address, U64(function_list[k].size)))
        Caller(instr) ==
            CHOOSE k \in 1 .. Len(function_list) :
                /\ Holds(k, instr)
                /\ \A j \in 1 .. Len(function_list) : Holds(j, instr) => k <= j
        Edge(instr) ==
            [kind |-> "Call", from_addr |-> instr.address, to_addr |-> AsU64(instr.imm),
             from_func |-> function_list[Caller(instr)].address,
             to_func |-> AsU64(instr.imm), conditional |-> FALSE]
        Edges(calls) == [k \in 1 .. Len(calls) |-> Edge(calls[k])]
    IN  Edges(SelectSeq(map.instructions, LAMBDA instr :
                  /\ IsSyscall(instr)
                  /\ \E k \in 1 .. Len(function_list) : Holds(k, instr)))

-----------------------------------------------------------------------------
(* crates/core/src/models/reg.rs, crates/core/src/models/primitive.rs      *)
(* A name is the sequence of the pieces of its text.                       *)

\* TypeRegistry::new
TypeRegistryNew == [types |-> <<>>, type_names |-> <<>>, next_id |-> 1]

RECURSIVE Description(_)
\* RustType::description
Description(rust_type) ==
    CASE rust_type.kind = "Primitive" -> rust_type.name
      [] rust_type.kind = "String" -> <<"String">>
      [] rust_type.kind = "Vector" ->
             <<"Vec<">> \o Description(rust_type.element_type) \o <<">">>
      [] rust_type.kind = "Array" ->
             <<"[">> \o Description(rust_type.element_type)
                 \o <<"; ", rust_type.length, "]">>
      [] rust_type.kind = "Struct" -> rust_type.name
      [] rust_type.kind = "Enum" -> rust_type.name
      [] rust_type.kind = "Option" ->
             <<"Option<">> \o Description(rust_type.inner) \o <<">">>
      [] rust_type.kind = "Result" ->
             <<"Result<">> \o Description(rust_type.ok) \o <<", ">>
                 \o Description(rust_type.err) \o <<">">>
      [] rust_type.kind = "Box" ->
             <<"Box<">> \o Description(rust_type.inner) \o <<">">>
      [] rust_type.kind = "Reference" ->
             <<"&">> \o Description(rust_type.inner)
      [] rust_type.kind = "Function" -> <<"fn()">>
      [] rust_type.kind = "Unknown" -> <<"unknown">>

\* register_type giving a type whose name is registered the id of that name,
\* in place of the type registered under it.
RegisterTypeReusingNamedId(registry, rust_type, name) ==
    IF name # None /\ name[1] \in DOMAIN registry.type_names
    THEN [type_id |-> registry.type_names[name[1]],
          registry |->
              [registry EXCEPT
                  !.types = Insert(registry.types, registry.type_names[name[1]],
                                   rust_type)]]
    ELSE [type_id |-> registry.next_id,
          registry |->
              [types |-> Insert(registry.types, registry.next_id, rust_type),
               type_names |-> IF name # None
                              THEN Insert(registry.type_names, name[1], registry.next_id)
                              ELSE registry.type_names,
               next_id |-> registry.next_id + 1]]

\* TypeRegistry::register_type, which every register_* function ends with:
\* the id it returns and the registry after it.
register_type(registry, rust_type, name) ==
    [type_id |-> registry.next_id,
     registry |->
         [types |-> Insert(registry.types, registry.next_id, rust_type),
          type_names |-> IF name # None
                         THEN Insert(registry.type_names, name[1], registry.next_id)
                         ELSE registry.type_names,
          next_id |-> registry.next_id + 1]]

\* TypeRegistry::get_type
get_type(registry, type_id) ==
    IF type_id \in DOMAIN registry.types THEN Some(registry.types[type_id]) ELSE None

\* PrimitiveType::new as a RustType::Primitive
Primitive(name, size) == [kind |-> "Primitive", name |-> <<name>>, size |-> size]

\* The type and the name each register_* function passes to register_type,
\* for the arguments of the model: a primitive, a string, a struct and an
\* enum of the same name, and the types built on the primitive.
RegisterCalls ==
    LET Call(rust_type, name) == [rust_type |-> rust_type, name |-> name]
        Described(rust_type) == Call(rust_type, Some(Description(rust_type)))
        Named(rust_type) == Call(rust_type, Some(rust_type.name))
        Of(u8) ==
            { Named(u8),                                        \* register_primitive
              Call([kind |-> "String", is_static |-> FALSE],
                   Some(<<"String">>)),                         \* register_string
              Described([kind |-> "Vector", element_type |-> u8]),        \* register_vector
              Described([kind |-> "Array", element_type |-> u8,
                         length |-> "4"]),                      \* register_array
              Named([kind |-> "Struct", name |-> <<"Pair">>, fields |-> <<>>,
                     size |-> 0, alignment |-> 8]),             \* register_struct
              Named([kind |-> "Enum", name |-> <<"Pair">>]),    \* register_enum
              Described([kind |-> "Option", inner |-> u8]),     \* register_option
              Described([kind |-> "Result", ok |-> u8, err |-> u8]),      \* register_result
              Described([kind |-> "Box", inner |-> u8]),        \* register_box
              Described([kind |-> "Reference", inner |-> u8]),  \* register_reference
              Call([kind |-> "Function"], None) }               \* register_function
    IN  Of(Primitive("u8", 1))

-----------------------------------------------------------------------------
(* crates/core/src/resolvers/struct_resolver.rs                            *)

\* MemoryMap::get_access_patterns
get_access_patterns(patterns, start_addr, end_addr) ==
    SelectSeq(patterns, LAMBDA access :
                  access.address >= start_addr /\ access.address < end_addr)

RECURSIVE StructFields(_, _, _, _)
\* The `for (offset, access) in field_accesses` loop of
\* StructResolver::resolve from entry i on: the fields after it.
StructFields(field_accesses, i, current_offset, fields) ==
    LET is_likely_char(access) ==
            /\ access.instruction.instruction # None
            /\ access.instruction.instruction[1].op \in {"JeqImm", "JneImm"}
            /\ access.instruction.imm \in 32 .. 126
        is_likely_pointer(access) ==
            /\ access.instruction.instruction # None
            /\ access.instruction.instruction[1].op \in
                   {"Ldxw", "Ldxh", "Ldxb", "Ldxdw", "Stxw", "Stxh", "Stxb", "Stxdw"}
        is_likely_string_ptr(access) == access.instruction.references # None
        FieldType(access) ==
            CASE access.size = 1 -> Primitive("u8", 1)
              [] access.size = 2 -> Primitive("u16", 2)
              [] access.size = 4 ->
                     IF is_likely_char(access) THEN Primitive("char", 4)
                     ELSE Primitive("u32", 4)
              [] access.size = 8 ->
                     IF is_likely_pointer(access)
                     THEN IF is_likely_string_ptr(access)
                          THEN [kind |-> "String", is_static |-> FALSE]
                          ELSE Primitive("*const u8", 8)
                     ELSE Primitive("u64", 8)
        Step(offset, access) ==
            IF offset < current_offset \/ access.size \notin {1, 2, 4, 8}
            THEN StructFields(field_accesses, i + 1, current_offset, fields)
            ELSE StructFields(field_accesses, i + 1, offset + access.size,
                     Append(fields,
                         [name |-> Some(<<"field_", Len(fields)>>),
                          field_type |-> FieldType(access),
                          offset |-> offset]))
    IN  IF i > Len(field_accesses) THEN fields
        ELSE Step(field_accesses[i].offset, field_accesses[i].access)

RECURSIVE StructResolverResolve(_, _, _, _)
\* StructResolver::resolve from entry i of potential_structs on: the
\* registry after it, and what its calls of register_struct returned.
StructResolverResolve(patterns, potential_structs, i, state) ==
    LET RECURSIVE Hex(_)
        Hex(n) == IF n < 16 THEN <<n>> ELSE Hex(n \div 16) \o <<n % 16>>
        Sorted(pairs) ==
            LET Rank(k) ==
                    Cardinality({j \in 1 .. Len(pairs) :
                        \/ pairs[j].offset < pairs[k].offset
                        \/ pairs[j].offset = pairs[k].offset /\ j < k}) + 1
            IN  [r \in 1 .. Len(pairs) |->
                    pairs[CHOOSE k \in 1 .. Len(pairs) : Rank(k) = r]]
        Registered(struct_type, called) ==
            [registry |-> called.registry,
             returned |-> Append(state.returned,
                              [type_id |-> called.type_id, rust_type |-> struct_type])]
        Register(struct_type) ==
            Registered(struct_type,
                register_type(state.registry, struct_type, Some(struct_type.name)))
        Struct(acc, fields) ==
            IF fields = <<>> THEN state
            ELSE Register([kind |-> "Struct",
                           name |-> <<"Struct_">> \o Hex(acc.address),
                           fields |-> fields, size |-> acc.size, alignment |-> 8])
        Fields(acc, accesses) ==
            StructFields(
                Sorted([k \in 1 .. Len(accesses) |->
                           [offset |-> accesses[k].address - acc.address,
                            access |-> accesses[k]]]),
                1, 0, <<>>)
        Of(acc) ==
            Struct(acc, Fields(acc, get_access_patterns(patterns, acc.address, acc.size)))
    IN  IF i > Len(potential_structs) THEN state
        ELSE StructResolverResolve(patterns, potential_structs, i + 1,
                                   Of(potential_structs[i]))

-----------------------------------------------------------------------------
(* crates/server/src/auth.rs                                               *)

\* ApiKeys::from_env: the keys, of the value of API_KEYS (None when unset).
from_env(env) ==
    LET White == {9, 10, 11, 12, 13, 32}
        trim(s) ==
            IF \A k \in 1 .. Len(s) : s[k] \in White THEN <<>>
            ELSE SubSeq(s, RunLen(s, 0, White) + 1,
                     CHOOSE e \in 1 .. Len(s) :
                         /\ s[e] \notin White
                         /\ \A j \in e + 1 .. Len(s) : s[j] \in White)
        Keys(parts) ==
            {trim(parts[k]) : k \in 1 .. Len(parts)} \ {<<>>}
        Defaulted(keys) ==
            IF keys = {} THEN {<<100, 101, 118, 45, 97, 112, 105, 45, 107, 101, 121>>} \* "dev-api-key"
            ELSE keys
    IN  Defaulted(Keys(Split(IF env = None THEN <<>> ELSE env[1], <<44>>)))

\* api_key_auth: "next" when the request is passed on to its handler, 401
\* when it is answered UNAUTHORIZED.
api_key_auth(env, req) ==
    LET is_valid(api_keys, key) == key \in api_keys
        to_str(value) ==
            IF \A k \in 1 .. Len(value) : value[k] \in (32 .. 126) \cup {9}
            THEN Some(value) ELSE None
        Checked(api_keys, api_key) ==
            IF api_key = None THEN "UNAUTHORIZED"
            ELSE IF is_valid(api_keys, api_key[1]) THEN "next"
            ELSE "UNAUTHORIZED"
        Authorized(api_keys) ==
            IF req.path = <<47, 115, 116, 97, 116, 117, 115>> \* "/status"
            THEN "next"
            ELSE Checked(api_keys,
                     IF req.x_api_key = None THEN None ELSE to_str(req.x_api_key[1]))
    IN  Authorized(from_env(env))

-----------------------------------------------------------------------------
(* The inputs of the model.                                                *)

BoundedSeqs(S, n) == UNION {[1 .. k -> S] : k \in 0 .. n}

\* AugerConfig::default
DefaultConfig ==
    [ff_sequence_length |-> 8, program_header_index |-> 1, replace_non_printable |-> TRUE]

\* Byte values of each kind the scan tells apart: NUL, an ASCII byte that is
\* not graphic, a graphic one, and 0xFF.
ScanAlphabet == {0, 32, 65, 255}

\* Program header tables: none, one header, two headers the second of which
\* lies beyond every byte slice of the model.
HeaderTables == {<<>>, <<1>>, <<0, 9>>}

\* Short binaries under every configuration, with the default parsers.
ScanInputs ==
    [bytes : BoundedSeqs(ScanAlphabet, MaxBytes),
     program_headers : HeaderTables,
     accepted : {TRUE},
     config : [ff_sequence_length : 0 .. MaxFF,
               program_header_index : {0, 1},
               replace_non_printable : BOOLEAN],
     parsers : {DefaultParsers}]

\* NUL-terminated strings a binary's printable window is made of.
Chunks ==
    { <<73, 110, 115, 116, 114, 117, 99, 116, 105, 111, 110, 58, 32, 83, 119, 97, 112>>, \* "Instruction: Swap"
      <<73, 88, 58, 32, 73, 100, 108, 87, 114, 105, 116, 101>>, \* "IX: IdlWrite"
      <<73, 110, 115, 116, 114, 117, 99, 116, 105, 111, 110, 58, 32, 73, 100, 108, 87, 114, 105, 116, 101>>, \* "Instruction: IdlWrite"
      <<73, 88, 58, 32, 114, 115>>, \* "IX: rs"
      <<97, 112, 112, 47, 115, 114, 99, 47, 108, 105, 98, 46, 114, 115>>, \* "app/src/lib.rs"
      <<97, 109, 109, 47, 115, 114, 99, 47, 108, 105, 98, 46, 114, 115>>, \* "amm/src/lib.rs"
      <<95, 90, 78, 51, 97, 112, 112, 52, 115, 119, 97, 112, 69>> \* "_ZN3app4swapE"
    }

\* The end-to-end scenarios of the specification, a handler name of 51
\* characters, a name that cleaning shortens to one character, a name that
\* ends with two removable keywords, mangled names (one of the
\* specification, one whose method length exceeds what is left of it, and
\* one that starts again before its first `E`), and source files: of a
\* standard-library project alone, of one that outnumbers the program's,
\* and of two projects with different counts; source files the Anchor
\* parser finds under programs/, alone and next to another project's; and
\* reserved handler names behind both markers.
Scenarios ==
    { << <<73, 110, 115, 116, 114, 117, 99, 116, 105, 111, 110, 58, 32, 83, 119, 97, 112>>,      \* "Instruction: Swap"
         <<73, 110, 115, 116, 114, 117, 99, 116, 105, 111, 110, 58, 32, 68, 101, 112, 111, 115, 105, 116>> >>, \* "Instruction: Deposit"
      << <<73, 88, 58, 32, 84, 114, 97, 110, 115, 102, 101, 114>>,           \* "IX: Transfer"
         <<109, 121, 112, 114, 111, 103, 47, 115, 114, 99, 47, 108, 105, 98, 46, 114, 115>> >>,    \* "myprog/src/lib.rs"
      << <<73, 88, 58, 32>> \o [k \in 1 .. 51 |-> 65] >>,  \* "IX: " and 51 times 'A'
      << <<73, 110, 115, 116, 114, 117, 99, 116, 105, 111, 110, 58, 32, 88, 105, 100, 108>>,      \* "Instruction: Xidl"
         <<73, 110, 115, 116, 114, 117, 99, 116, 105, 111, 110, 58, 32, 83, 119, 97, 112>> >>,    \* "Instruction: Swap"
      << <<95, 90, 78, 53, 109, 121, 99, 111, 114, 101, 54, 109, 111, 100, 117, 108, 101, 55, 112, 114, 111, 99, 101, 115, 115, 49, 55, 104, 97, 98, 99, 100, 101, 102, 48, 49, 50, 51, 52, 53, 54, 55, 56, 57, 69>> >>, \* "_ZN5mycore6module7process17habcdef0123456789E"
      << <<95, 90, 78, 49, 48, 36, 76, 84, 36, 65, 36, 117, 50, 48, 36, 97, 115, 36, 117, 50, 48, 36, 66, 36, 71, 84, 36, 57, 120, 69>> >>, \* "_ZN10$LT$A$u20$as$u20$B$GT$9xE"
      << <<95, 90, 78, 95, 90, 78, 69>> >>, \* "_ZN_ZNE"
      << <<73, 110, 115, 116, 114, 117, 99, 116, 105, 111, 110, 58, 32, 88, 97, 110, 99, 104, 111, 114, 105, 100, 108>> >>, \* "Instruction: Xanchoridl"
      << <<73, 110, 115, 116, 114, 117, 99, 116, 105, 111, 110, 58, 32, 83, 119, 97, 112>>,        \* "Instruction: Swap"
         <<112, 114, 111, 103, 114, 97, 109, 115, 47, 115, 116, 100, 47, 115, 114, 99, 47, 108, 105, 98, 46, 114, 115>> >>, \* "programs/std/src/lib.rs"
      << <<73, 110, 115, 116, 114, 117, 99, 116, 105, 111, 110, 58, 32, 83, 119, 97, 112>>,        \* "Instruction: Swap"
         <<112, 114, 111, 103, 114, 97, 109, 115, 47, 115, 116, 100, 47, 115, 114, 99, 47, 97, 46, 114, 115>>,    \* "programs/std/src/a.rs"
         <<112, 114, 111, 103, 114, 97, 109, 115, 47, 115, 116, 100, 47, 115, 114, 99, 47, 98, 46, 114, 115>>,    \* "programs/std/src/b.rs"
         <<97, 112, 112, 47, 115, 114, 99, 47, 108, 105, 98, 46, 114, 115>> >>,        \* "app/src/lib.rs"
      << <<97, 112, 112, 47, 115, 114, 99, 47, 108, 105, 98, 46, 114, 115>>,           \* "app/src/lib.rs"
         <<97, 112, 112, 47, 115, 114, 99, 47, 115, 116, 97, 116, 101, 46, 114, 115>>,         \* "app/src/state.rs"
         <<97, 109, 109, 47, 115, 114, 99, 47, 108, 105, 98, 46, 114, 115>> >>,        \* "amm/src/lib.rs"
      << <<73, 110, 115, 116, 114, 117, 99, 116, 105, 111, 110, 58, 32, 83, 119, 97, 112>>,  \* "Instruction: Swap"
         <<112, 114, 111, 103, 114, 97, 109, 115, 47, 97, 109, 109, 47, 115, 114, 99, 47, 108, 105, 98, 46, 114, 115>> >>,  \* "programs/amm/src/lib.rs"
      << <<73, 110, 115, 116, 114, 117, 99, 116, 105, 111, 110, 58, 32, 83, 119, 97, 112>>,  \* "Instruction: Swap"
         <<112, 114, 111, 103, 114, 97, 109, 115, 47, 97, 109, 109, 47, 115, 114, 99, 47, 108, 105, 98, 46, 114, 115>>,  \* "programs/amm/src/lib.rs"
         <<112, 114, 111, 103, 114, 97, 109, 115, 47, 97, 109, 109, 47, 115, 114, 99, 47, 115, 116, 97, 116, 101, 46, 114, 115>>,  \* "programs/amm/src/state.rs"
         <<97, 112, 112, 47, 115, 114, 99, 47, 108, 105, 98, 46, 114, 115>> >>,  \* "app/src/lib.rs"
      << <<73, 110, 115, 116, 114, 117, 99, 116, 105, 111, 110, 58, 32, 73, 100, 108, 87, 114, 105, 116, 101>>,  \* "Instruction: IdlWrite"
         <<73, 88, 58, 32, 73, 100, 108, 67, 108, 111, 115, 101>>,  \* "IX: IdlClose"
         <<73, 88, 58, 32, 73, 100, 108, 87, 114, 105, 116, 101>>,  \* "IX: IdlWrite"
         <<73, 88, 58, 32, 84, 114, 97, 110, 115, 102, 101, 114>> >>  \* "IX: Transfer"
    }

RECURSIVE Window(_)
\* The bytes of a sequence of strings, each NUL-terminated.
Window(chunks) ==
    IF Len(chunks) = 0 THEN <<>> ELSE Head(chunks) \o <<0>> \o Window(Tail(chunks))

\* Parser lists: the default one and lists that leave parsers out or
\* reorder them.
ParserLists ==
    {DefaultParsers, <<>>, <<AnchorParser>>,
     <<AnchorParser, NativeParser>>, <<NativeParser, AnchorParser>>,
     <<NativeParser, AnchorParser, LLDParser(None)>>}

\* Binaries whose printable window is a few strings, under the default
\* configuration, with every parser list.
TextInputs ==
    [bytes : {Window(cs) : cs \in BoundedSeqs(Chunks, MaxChunks) \cup Scenarios},
     program_headers : {<<0, 0>>},
     accepted : {TRUE},
     config : {DefaultConfig},
     parsers : ParserLists]

\* A binary the decoder rejects.
RejectedInputs ==
    [bytes : {<<65>>}, program_headers : {<<>>}, accepted : {FALSE},
     config : {DefaultConfig}, parsers : {DefaultParsers}]

Inputs == ScanInputs \cup TextInputs \cup RejectedInputs

\* Pieces of mangled names.
Pieces ==
    { <<95, 90, 78>>, \* "_ZN"
      <<69>>, \* "E"
      <<55, 112, 114, 111, 103, 114, 97, 109>>, \* "7program"
      <<49, 51, 68, 97, 116, 97, 83, 116, 114, 117, 99, 116, 117, 114, 101>>, \* "13DataStructure"
      <<54, 109, 101, 116, 104, 111, 100>>, \* "6method"
      <<49, 55, 104, 49, 51, 56, 55, 49, 97, 101, 50, 54, 49, 50, 99, 56, 56, 50, 57>>, \* "17h13871ae2612c8829"
      <<52, 99, 111, 114, 101>>, \* "4core"
      <<49, 48, 36, 76, 84, 36, 65, 36, 117, 50, 48, 36, 97, 115, 36, 117, 50, 48, 36, 66, 36, 71, 84, 36>>, \* "10$LT$A$u20$as$u20$B$GT$"
      <<57, 120>>, \* "9x"
      <<51, 36, 76, 84, 36, 105, 51, 50, 36, 71, 84, 36>>, \* "3$LT$i32$GT$"
      <<32>>, \* " "
      <<50, 99, 111>>, \* "2co"
      <<53, 99, 111, 114, 101, 120>> \* "5corex"
    }

\* The mangled names the specification gives as examples, and the last of
\* them with the length of its first segment set right.
Examples ==
    { <<95, 90, 78, 55, 112, 114, 111, 103, 114, 97, 109, 54, 109, 111, 100, 117, 108, 101, 52, 102, 105, 108, 101, 49, 51, 68, 97, 116, 97, 83, 116, 114, 117, 99, 116, 117, 114, 101, 54, 109, 101, 116, 104, 111, 100, 49, 55, 104, 49, 51, 56, 55, 49, 97, 101, 50, 54, 49, 50, 99, 56, 56, 50, 57, 69>>, \* "_ZN7program6module4file13DataStructure6method17h13871ae2612c8829E"
      <<95, 90, 78, 52, 99, 111, 114, 101, 51, 102, 109, 116, 53, 87, 114, 105, 116, 101, 57, 119, 114, 105, 116, 101, 95, 115, 116, 114, 49, 55, 104, 49, 50, 51, 52, 53, 54, 55, 56, 57, 48, 97, 98, 99, 100, 101, 102, 69>>, \* "_ZN4core3fmt5Write9write_str17h1234567890abcdefE"
      <<95, 90, 78, 53, 109, 121, 99, 111, 114, 101, 54, 109, 111, 100, 117, 108, 101, 55, 112, 114, 111, 99, 101, 115, 115, 49, 55, 104, 97, 98, 99, 100, 101, 102, 48, 49, 50, 51, 52, 53, 54, 55, 56, 57, 69>>, \* "_ZN5mycore6module7process17habcdef0123456789E"
      <<95, 90, 78, 54, 109, 121, 99, 111, 114, 101, 54, 109, 111, 100, 117, 108, 101, 55, 112, 114, 111, 99, 101, 115, 115, 49, 55, 104, 97, 98, 99, 100, 101, 102, 48, 49, 50, 51, 52, 53, 54, 55, 56, 57, 69>> \* "_ZN6mycore6module7process17habcdef0123456789E"
    }

RECURSIVE Concat(_)
Concat(ps) == IF Len(ps) = 0 THEN <<>> ELSE Head(ps) \o Concat(Tail(ps))

\* Strings that start with `_ZN`, followed by a few pieces.
Blobs == {<<95, 90, 78>> \o Concat(ps) : ps \in BoundedSeqs(Pieces, MaxPieces)} \cup Examples

-----------------------------------------------------------------------------
(* The analysis of one binary: extract_from_bytes is called on it, and     *)
(* called again on the same bytes and configuration.                       *)

NoDemangle == [status |-> "None", symbol |-> NoSymbol, err |-> ""]
NoProgram == [section_header_entries |-> <<>>, data_len |-> 0, short_lddw |-> FALSE]
NoMemoryMap ==
    [built |-> FALSE, sections |-> <<>>, strings |-> <<>>, references |-> <<>>,
     instructions |-> <<>>]
NoFunctions == [analyzer |-> "none", blocks |-> <<>>]
NoControlFlow == [analyzer |-> "none", edges |-> <<>>, panicked |-> FALSE]
NoNames == [state |-> "idle", tokens |-> <<>>]
NoLLD == [outcome |-> "idle", definitions |-> {}, program_name |-> None]

\* The program_name an LLDParser is constructed with: none, or "program".
ExpectedPrograms == {None, Some(<<112, 114, 111, 103, 114, 97, 109>>)}

Init ==
    /\ \E in \in Inputs :
          /\ bytes = in.bytes
          /\ program_headers = in.program_headers
          /\ accepted = in.accepted
          /\ config = in.config
          /\ parsers = in.parsers
    /\ pc = "ready"
    /\ result = NoResult
    /\ first_result = NoResult
    /\ run = 0
    /\ blob = <<>>
    /\ demangled = NoDemangle
    /\ names = NoNames
    /\ lld = NoLLD
    /\ type_registry = TypeRegistryNew
    /\ returned = <<>>
    /\ access_patterns = <<>>
    /\ resolved = FALSE
    /\ api_keys_env = None
    /\ request = None
    /\ response = None
    /\ program = NoProgram
    /\ memory_map = NoMemoryMap
    /\ functions = NoFunctions
    /\ control_flow = NoControlFlow

\* extract_from_bytes(bytes, config), start to end.
ExtractFromBytes ==
    /\ pc = "ready"
    /\ \E o \in ExtractOutcomes(bytes, program_headers, accepted, config, parsers) :
          /\ pc' = o.pc
          /\ result' = o.result
    /\ run' = run + 1
    /\ UNCHANGED <<bytes, program_headers, accepted, config, parsers, first_result>>
    /\ UNCHANGED lldVars
    /\ UNCHANGED mapVars
    /\ UNCHANGED <<regVars, authVars>>

\* The caller keeps what the first call returned and calls again.
CallAgain ==
    /\ pc = "returned"
    /\ run < 2
    /\ pc' = "ready"
    /\ first_result' = result
    /\ result' = NoResult
    /\ UNCHANGED <<bytes, program_headers, accepted, config, parsers, run>>
    /\ UNCHANGED lldVars
    /\ UNCHANGED mapVars
    /\ UNCHANGED <<regVars, authVars>>

Next == ExtractFromBytes \/ CallAgain

Spec == Init /\ [][Next]_vars

-----------------------------------------------------------------------------
(* The demangler and the LLD parser on one string: the public functions    *)
(* demangle and extract_mangled_names and LLDParser::extract_definitions   *)
(* are each called on it.                                                  *)

LLDInit ==
    /\ blob \in Blobs
    /\ demangled = NoDemangle
    /\ names = NoNames
    /\ lld = NoLLD
    /\ type_registry = TypeRegistryNew
    /\ returned = <<>>
    /\ access_patterns = <<>>
    /\ resolved = FALSE
    /\ api_keys_env = None
    /\ request = None
    /\ response = None
    /\ program = NoProgram
    /\ memory_map = NoMemoryMap
    /\ functions = NoFunctions
    /\ control_flow = NoControlFlow
    /\ bytes = <<>>
    /\ program_headers = <<>>
    /\ accepted = FALSE
    /\ config = DefaultConfig
    /\ parsers = <<>>
    /\ pc = "idle"
    /\ result = NoResult
    /\ first_result = NoResult
    /\ run = 0

\* demangle(blob)
Demangle ==
    /\ demangled.status = "None"
    /\ demangled' = demangle(blob)
    /\ UNCHANGED <<blob, names, lld>>
    /\ UNCHANGED extractVars
    /\ UNCHANGED mapVars
    /\ UNCHANGED <<regVars, authVars>>

\* extract_mangled_names(blob)
ExtractMangledNames ==
    /\ names.state = "idle"
    /\ names' = LET Of(tokens) ==
                        IF tokens = None THEN [state |-> "diverged", tokens |-> <<>>]
                        ELSE [state |-> "returned", tokens |-> tokens[1]]
                IN  Of(extract_mangled_names(blob))
    /\ UNCHANGED <<blob, demangled, lld>>
    /\ UNCHANGED extractVars
    /\ UNCHANGED mapVars
    /\ UNCHANGED <<regVars, authVars>>

\* LLDParser::new(program_name).extract_definitions(blob)
ExtractDefinitions ==
    /\ lld.outcome = "idle"
    /\ \E program_name \in ExpectedPrograms :
          lld' = LET Called(extracted) ==
                         [outcome |-> extracted.outcome,
                          definitions |-> extracted.definitions,
                          program_name |-> program_name]
                 IN  Called(LLDExtractDefinitions(blob, program_name))
    /\ UNCHANGED <<blob, demangled, names>>
    /\ UNCHANGED extractVars
    /\ UNCHANGED mapVars
    /\ UNCHANGED <<regVars, authVars>>

LLDNext == Demangle \/ ExtractMangledNames \/ ExtractDefinitions

LLDSpec == LLDInit /\ [][LLDNext]_vars

-----------------------------------------------------------------------------
(* The memory map and the analyzers on one decoded program: MemoryMap::new *)
(* is called on it, then find_functions of an analyzer on the map, then    *)
(* map_control_flow of an analyzer on the map and the functions found.     *)

\* The file offsets of the sections of the model.
RodataOffset == 16
TextOffset == 64

\* 8-byte slots a code section is made of: the two halves of an Lddw of the
\* address of a string and of another address, a syscall, a call of the
\* second slot, jumps to the next and to the previous slot, an exit, a
\* move, and a slot whose first byte is no opcode (also the second half of
\* an Lddw).
Slots ==
    { <<24, 0, 0, 0, 16, 0, 0, 0>>,          \* lddw r0, 16 (first half)
      <<24, 0, 0, 0, 17, 0, 0, 0>>,          \* lddw r0, 17 (first half)
      <<0, 0, 0, 0, 0, 0, 0, 0>>,            \* second half, upper bits 0
      <<133, 0, 0, 0, 1, 0, 0, 0>>,          \* call 1 (sol_log_)
      <<133, 0, 0, 0, 72, 0, 0, 0>>,         \* call 72
      <<5, 0, 0, 0, 0, 0, 0, 0>>,            \* ja +0
      <<21, 0, 0, 0, 240, 255, 255, 255>>,   \* jeq r0, -16
      <<149, 0, 0, 0, 0, 0, 0, 0>>,          \* exit
      <<183, 0, 0, 0, 0, 0, 0, 0>>           \* mov64 r0, 0
    }

\* The bytes of a data section: a string of four characters and its NUL,
\* and one of two characters before it.
RodataContents ==
    { <<97, 98, 99, 100, 0>>,                \* "abcd\0"
      <<97, 98, 0, 97, 98, 99, 100, 101, 0>> \* "ab\0abcde\0"
    }

RECURSIVE DecodeIxs(_, _)
\* The decoder's reading of a section's bytes from pos on, an Lddw taking
\* two slots: Some(the instructions), None when it rejects the bytes.
DecodeIxs(data, pos) ==
    LET Cons(ix, rest) == IF rest = None THEN None ELSE Some(<<ix>> \o rest[1])
        Slot(op) ==
            IF op = "Invalid" THEN None
            ELSE IF op = "Lddw"
            THEN IF pos + 16 > Len(data) THEN None
                 ELSE Cons([op |-> op, imm |-> U32FromLeBytes(data, pos + 4)],
                           DecodeIxs(data, pos + 16))
            ELSE Cons([op |-> op, imm |-> U32FromLeBytes(data, pos + 4)],
                      DecodeIxs(data, pos + 8))
    IN  IF pos + 8 > Len(data) THEN Some(<<>>) ELSE Slot(OpCodeOf(data[pos + 1]))

\* A code section of the decoded program: with the instructions the decoder
\* read from its bytes, or with none.
CodeSections(label) ==
    LET Entry(data, ixs) ==
            [label |-> label, offset |-> TextOffset, data |-> data, ixs |-> ixs]
        Entries(data, decoded) ==
            {Entry(data, <<>>)} \cup
                (IF decoded = None THEN {} ELSE {Entry(data, decoded[1])})
        Of(data) == Entries(data, DecodeIxs(data, 0))
    IN  UNION {Of(Concat(slots)) : slots \in BoundedSeqs(Slots, MaxSlots) \ {<<>>}}

\* The data sections.
DataSections ==
    {[label |-> ".rodata", offset |-> RodataOffset, data |-> data, ixs |-> <<>>] :
        data \in RodataContents}

\* Decoded programs with a `.text` section alone, before and after a data
\* section, all within the data.
TextPrograms ==
    [section_header_entries :
         {<<t>> : t \in CodeSections(".text")}
             \cup {<<r, t>> : r \in DataSections, t \in CodeSections(".text")}
             \cup {<<t, r>> : t \in CodeSections(".text"), r \in DataSections},
     data_len : {TextOffset + 8 * MaxSlots},
     short_lddw : {FALSE}]

\* Decoded programs of one slot or two, under another label, with data too
\* short to hold a section, and with a decoder that takes the first half of
\* an Lddw for an instruction.
OtherPrograms ==
    [section_header_entries :
         {<<t>> : t \in {c \in CodeSections(".text") \cup CodeSections(".init") :
                            Len(c.data) <= 16}},
     data_len : {0, TextOffset + 8 * MaxSlots},
     short_lddw : BOOLEAN]

Programs == TextPrograms \cup OtherPrograms

\* Function lists a caller of map_control_flow makes up itself, of blocks
\* at the two ends of the address space: a block at 0 and a jump to the
\* next slot in the last slot, a block at 0 and a conditional jump over a
\* slot in the last slot but one, and an exit in the last slot but one
\* before a block in the last.
CallerBlocks ==
    LET Top(n) == <<65536 - n, 65535, 65535, 65535>>
        Block(address, op, imm) ==
            [address |-> address, name |-> <<"func_", address>>, size |-> 0,
             instructions |->
                 <<RichInstruction(address, [op |-> op, imm |-> <<imm, 0>>], None)>>]
    IN  { <<Block(U64(0), "Mov64Imm", 0), Block(Top(8), "Ja", 0)>>,
          <<Block(U64(0), "Mov64Imm", 0), Block(Top(16), "JeqImm", 8)>>,
          <<Block(Top(16), "Exit", 0), Block(Top(8), "Mov64Imm", 0)>> }

Analyzers == {"base_analyzer", "syscall_analyzer"}

\* AugerAnalyzer::find_functions
find_functions(analyzer, map) ==
    CASE analyzer = "base_analyzer" -> BaseFindFunctions(map)
      [] analyzer = "syscall_analyzer" -> SyscallFindFunctions(map)

\* AugerAnalyzer::map_control_flow
map_control_flow(analyzer, map, function_list) ==
    CASE analyzer = "base_analyzer" -> BaseMapControlFlow(map, function_list)
      [] analyzer = "syscall_analyzer" -> SyscallMapControlFlow(map, function_list)

MapInit ==
    /\ \/ /\ program \in Programs
          /\ functions = NoFunctions
       \/ /\ program \in OtherPrograms
          /\ functions \in {[analyzer |-> "caller", blocks |-> blocks] :
                               blocks \in CallerBlocks}
    /\ memory_map = NoMemoryMap
    /\ control_flow = NoControlFlow
    /\ bytes = <<>>
    /\ program_headers = <<>>
    /\ accepted = FALSE
    /\ config = DefaultConfig
    /\ parsers = <<>>
    /\ pc = "idle"
    /\ result = NoResult
    /\ first_result = NoResult
    /\ run = 0
    /\ blob = <<>>
    /\ demangled = NoDemangle
    /\ names = NoNames
    /\ lld = NoLLD
    /\ type_registry = TypeRegistryNew
    /\ returned = <<>>
    /\ access_patterns = <<>>
    /\ resolved = FALSE
    /\ api_keys_env = None
    /\ request = None
    /\ response = None

\* MemoryMap::new(&program, data)
BuildMemoryMap ==
    /\ ~memory_map.built
    /\ memory_map' = MemoryMapNew(program)
    /\ UNCHANGED <<program, functions, control_flow>>
    /\ UNCHANGED extractVars
    /\ UNCHANGED lldVars
    /\ UNCHANGED <<regVars, authVars>>

\* analyzer.find_functions(&memory_map)
FindFunctions ==
    /\ memory_map.built
    /\ functions.analyzer = "none"
    /\ \E analyzer \in Analyzers :
          functions' = [analyzer |-> analyzer,
                        blocks |-> find_functions(analyzer, memory_map)]
    /\ UNCHANGED <<program, memory_map, control_flow>>
    /\ UNCHANGED extractVars
    /\ UNCHANGED lldVars
    /\ UNCHANGED <<regVars, authVars>>

\* analyzer.map_control_flow(&memory_map, &functions)
MapControlFlow ==
    /\ functions.analyzer # "none"
    /\ control_flow.analyzer = "none"
    /\ \E analyzer \in Analyzers, overflow_checks \in BOOLEAN :
          control_flow' =
              IF /\ overflow_checks
                 /\ analyzer = "base_analyzer"
                 /\ BaseMapControlFlowOverflows(functions.blocks)
              THEN [analyzer |-> analyzer, edges |-> <<>>, panicked |-> TRUE]
              ELSE [analyzer |-> analyzer,
                    edges |-> map_control_flow(analyzer, memory_map,
                                               functions.blocks),
                    panicked |-> FALSE]
    /\ UNCHANGED <<program, memory_map, functions>>
    /\ UNCHANGED extractVars
    /\ UNCHANGED lldVars
    /\ UNCHANGED <<regVars, authVars>>

MapNext == BuildMemoryMap \/ FindFunctions \/ MapControlFlow

MapSpec == MapInit /\ [][MapNext]_vars

-----------------------------------------------------------------------------
(* The type registry and the struct resolver (RegSpec): register_* calls   *)
(* on a new TypeRegistry, accesses tracked in the memory map, and          *)
(* StructResolver::resolve on both.                                        *)

\* The accesses tracked: at two bases, of 8 bytes at offset 0, of 4 at
\* offset 8 and of 1 at offset 12, by no decoded instruction, by a load,
\* and by a comparison with a character.
Accesses ==
    LET By(instruction, imm) ==
            [instruction |-> instruction, imm |-> imm, references |-> None]
        At(base) ==
            { [address |-> base, size |-> 8, instruction |-> By(None, 0)],
              [address |-> base, size |-> 8,
               instruction |-> By(Some([op |-> "Ldxdw"]), 0)],
              [address |-> base + 8, size |-> 4, instruction |-> By(None, 0)],
              [address |-> base + 8, size |-> 4,
               instruction |-> By(Some([op |-> "JeqImm"]), 65)],
              [address |-> base + 12, size |-> 1, instruction |-> By(None, 0)] }
    IN  At(0) \cup At(4096)

RegInit ==
    /\ type_registry = TypeRegistryNew
    /\ returned = <<>>
    /\ access_patterns = <<>>
    /\ resolved = FALSE
    /\ api_keys_env = None
    /\ request = None
    /\ response = None
    /\ program = NoProgram
    /\ memory_map = NoMemoryMap
    /\ functions = NoFunctions
    /\ control_flow = NoControlFlow
    /\ bytes = <<>>
    /\ program_headers = <<>>
    /\ accepted = FALSE
    /\ config = DefaultConfig
    /\ parsers = <<>>
    /\ pc = "idle"
    /\ result = NoResult
    /\ first_result = NoResult
    /\ run = 0
    /\ blob = <<>>
    /\ demangled = NoDemangle
    /\ names = NoNames
    /\ lld = NoLLD

\* type_registry.register_*(..)
Register ==
    /\ type_registry.next_id <= MaxTypes
    /\ \E call \in RegisterCalls :
           LET Called(registered) ==
                   /\ type_registry' = registered.registry
                   /\ returned' = Append(returned,
                                      [type_id |-> registered.type_id,
                                       rust_type |-> call.rust_type])
           IN  Called(register_type(type_registry, call.rust_type, call.name))
    /\ UNCHANGED <<access_patterns, resolved>>
    /\ UNCHANGED <<extractVars, lldVars, mapVars, authVars>>

\* memory_map.track_access(access)
track_access ==
    /\ ~resolved
    /\ Len(access_patterns) < MaxAccesses
    /\ \E access \in Accesses : access_patterns' = Append(access_patterns, access)
    /\ UNCHANGED <<type_registry, returned, resolved>>
    /\ UNCHANGED <<extractVars, lldVars, mapVars, authVars>>

\* StructResolver.resolve(&memory_map, &mut type_registry)
Resolve ==
    /\ ~resolved
    /\ resolved' = TRUE
    /\ LET Done(state) ==
               /\ type_registry' = state.registry
               /\ returned' = state.returned
       IN  Done(StructResolverResolve(access_patterns,
                    get_access_patterns(access_patterns, 0, 16777216), 1,
                    [registry |-> type_registry, returned |-> returned]))
    /\ UNCHANGED access_patterns
    /\ UNCHANGED <<extractVars, lldVars, mapVars, authVars>>

RegNext == Register \/ track_access \/ Resolve

RegSpec == RegInit /\ [][RegNext]_vars

-----------------------------------------------------------------------------
(* The server's authorization layer (AuthSpec): api_key_auth on a request, *)
(* under a value of the API_KEYS environment variable.                     *)

\* The values of API_KEYS: unset, empty, one key, two keys, keys within
\* blanks, and commas with no key or after one.
ApiKeyEnvs ==
    {None} \cup
    { Some(<<>>),  \* ""
      Some(<<107, 49>>),  \* "k1"
      Some(<<107, 49, 44, 107, 50>>),  \* "k1,k2"
      Some(<<32, 107, 49, 32, 44, 32, 107, 50>>),  \* " k1 , k2"
      Some(<<44>>),  \* ","
      Some(<<107, 49, 44, 44>>)  \* "k1,,"
    }

\* The requests: to the status path, to the other routes and to a path
\* that only starts like the status path, without an x-api-key header or
\* with one, of a key, of a key after a blank, of the default key, of
\* several keys, of no character, and of a byte that is no visible ASCII.
Requests ==
    [path : { <<47, 115, 116, 97, 116, 117, 115>>,  \* "/status"
             <<47, 100, 101, 115, 116, 114, 117, 99, 116, 117, 114, 101>>,  \* "/destructure"
             <<47, 115, 116, 111, 114, 97, 103, 101, 47, 120>>,  \* "/storage/x"
             <<47, 115, 116, 97, 116, 117, 115, 47>>  \* "/status/"
           },
     x_api_key : {None, Some(<<200>>)} \cup
         { Some(<<107, 49>>),  \* "k1"
           Some(<<107, 50>>),  \* "k2"
           Some(<<32, 107, 49>>),  \* " k1"
           Some(<<100, 101, 118, 45, 97, 112, 105, 45, 107, 101, 121>>),  \* "dev-api-key"
           Some(<<107, 51>>),  \* "k3"
           Some(<<107, 49, 44, 107, 50>>),  \* "k1,k2"
           Some(<<>>)  \* ""
         }]

AuthInit ==
    /\ api_keys_env \in ApiKeyEnvs
    /\ request = None
    /\ response = None
    /\ type_registry = TypeRegistryNew
    /\ returned = <<>>
    /\ access_patterns = <<>>
    /\ resolved = FALSE
    /\ program = NoProgram
    /\ memory_map = NoMemoryMap
    /\ functions = NoFunctions
    /\ control_flow = NoControlFlow
    /\ bytes = <<>>
    /\ program_headers = <<>>
    /\ accepted = FALSE
    /\ config = DefaultConfig
    /\ parsers = <<>>
    /\ pc = "idle"
    /\ result = NoResult
    /\ first_result = NoResult
    /\ run = 0
    /\ blob = <<>>
    /\ demangled = NoDemangle
    /\ names = NoNames
    /\ lld = NoLLD

\* api_key_auth(req, next) on a request that arrives
ApiKeyAuth ==
    /\ \E req \in Requests :
           /\ request' = Some(req)
           /\ response' = Some(api_key_auth(api_keys_env, req))
    /\ UNCHANGED api_keys_env
    /\ UNCHANGED <<extractVars, lldVars, mapVars, regVars>>

AuthSpec == AuthInit /\ [][ApiKeyAuth]_vars

-----------------------------------------------------------------------------
(* Properties of extract_from_bytes and of the driver (Spec).              *)

\* A call of extract_from_bytes has returned a report.
Reported == pc = "returned" /\ result.status = "Ok"

\* The parsers of the list that can handle the text of the report.
Handlers == {k \in 1 .. Len(parsers) : can_handle(parsers[k], result.report.text)}

\* What the handling parsers find in the text of the report, each on its own.
FoundInstructions ==
    UNION {parse_instructions(parsers[k], result.report.text) : k \in Handlers}
FoundProtected ==
    UNION {get_protected_instructions(parsers[k],
               parse_instructions(parsers[k], result.report.text)) : k \in Handlers}
FoundFiles == UNION {parser_source_files(parsers[k], result.report.text) : k \in Handlers}
FoundDefinitions ==
    UNION {parser_definitions(parsers[k], result.report.text).definitions : k \in Handlers}

\* C1: for every parser list and text, the report holds the union of what
\* every parser that can handle the text finds (instructions less the
\* protected ones and the excluded names, protected instructions, source
\* files attributed to the main project, definitions), its program_type is
\* the tag of the first parser in list order that can handle the text, and
\* the tag is "unknown" exactly when no parser of the list can handle it.
C1_DriverUnionsHandlers ==
    Reported =>
        /\ result.report.instructions =
               {s \in FoundInstructions \ FoundProtected :
                   Len(s) >= 2 /\ Len(s) <= 50 /\ s \notin FALSE_POSITIVES}
        /\ result.report.protected_instructions = FoundProtected
        /\ result.report.files =
               normalize_source_files(FoundFiles, result.report.program_name)
        /\ result.report.definitions = FoundDefinitions
        /\ \A k \in Handlers :
               (\A j \in Handlers : k <= j) =>
                   result.report.program_type = program_type(parsers[k])
        /\ (result.report.program_type = "unknown") <=> (Handlers = {})

\* C1's case: two parsers of the list handle the text and each finds an
\* instruction the other does not.
C1_Witness ==
    /\ Reported
    /\ \E j, k \in Handlers :
          /\ parse_instructions(parsers[j], result.report.text) \ 
                 parse_instructions(parsers[k], result.report.text) # {}
          /\ parse_instructions(parsers[k], result.report.text) \ 
                 parse_instructions(parsers[j], result.report.text) # {}

\* The text holds an `Instruction: <Name>` marker.
HasAnchorMarker(text) == CapturesIter(text, 0, <<73, 110, 115, 116, 114, 117, 99, 116, 105, 111, 110, 58, 32>>, <<>>) # {}
\* The text holds an `IX: <Name>` marker.
HasNativeMarker(text) == CapturesIter(text, 0, <<73, 88, 58, 32>>, <<>>) # {}

\* C2: with the default parser list, a report on a text with an
\* `Instruction: <Name>` marker has program_type "anchor", and a report on a
\* text with an `IX: <Name>` marker and no Anchor marker has program_type
\* "native".
C2_DefaultProgramType ==
    (Reported /\ parsers = DefaultParsers) =>
        /\ HasAnchorMarker(result.report.text) =>
               result.report.program_type = "anchor"
        /\ (HasNativeMarker(result.report.text) /\ ~HasAnchorMarker(result.report.text)) =>
               result.report.program_type = "native"

\* C3: in every report, each name of `instructions` has between 2 and 50
\* characters, is no member of FALSE_POSITIVES and is no member of
\* `protected_instructions`.
C3_InstructionsFiltered ==
    Reported =>
        \A name \in result.report.instructions :
            /\ Len(name) >= 2
            /\ Len(name) <= 50
            /\ name \notin FALSE_POSITIVES
            /\ name \notin result.report.protected_instructions

\* C3's case: the parsers found a name that is too short or too long, a
\* false positive or a protected name, and the report still lists a name.
C3_Witness ==
    /\ Reported
    /\ result.report.instructions # {}
    /\ \E name \in FoundInstructions :
          \/ Len(name) < 2
          \/ Len(name) > 50
          \/ name \in FALSE_POSITIVES
          \/ name \in result.report.protected_instructions


\* The offset of the selected program header.
StartOffset == program_headers[config.program_header_index + 1]

\* The indices just after config.ff_sequence_length consecutive 0xFF bytes
\* that all lie at or after the start offset.
RunEnds ==
    {e \in StartOffset + config.ff_sequence_length .. Len(bytes) :
        \A k \in e - config.ff_sequence_length + 1 .. e : bytes[k] = 255}

\* C4: the scan starts at the selected program header's offset and stops
\* when the count of consecutive 0xFF bytes reaches ff_sequence_length:
\* end_position is the index just after the first run of that many 0xFF
\* bytes at or after the start offset, or the length of the bytes if there
\* is no such run, and the bytes processed are those in between.
C4_ScanStopsAtFFRun ==
    Reported =>
        /\ result.report.stats.start_offset = StartOffset
        /\ result.report.stats.end_position =
               IF RunEnds = {} THEN Len(bytes)
               ELSE CHOOSE e \in RunEnds : \A d \in RunEnds : e <= d
        /\ result.report.stats.bytes_processed =
               result.report.stats.end_position - StartOffset

\* C4's case: the scan started after the first byte and stopped at a run of
\* more than one 0xFF before the end of the bytes.
C4_Witness ==
    /\ Reported
    /\ result.report.stats.start_offset > 0
    /\ result.report.stats.end_position < Len(bytes)
    /\ config.ff_sequence_length > 1

\* C5: with replace_non_printable the text has one character per processed
\* byte, the byte itself if it is ASCII-graphic and a space otherwise;
\* without it the text is the ASCII-graphic bytes of the processed range,
\* in order.
C5_TextOfProcessedBytes ==
    Reported =>
        LET stats == result.report.stats
            text == result.report.text
            processed == SubSeq(bytes, stats.start_offset + 1, stats.end_position)
            graphic(b) == b \in 33 .. 126
        IN  IF config.replace_non_printable
            THEN /\ Len(text) = stats.bytes_processed
                 /\ Len(text) = stats.end_position - stats.start_offset
                 /\ \A i \in 0 .. Len(text) - 1 :
                       text[i + 1] = IF graphic(bytes[stats.start_offset + i + 1])
                                     THEN bytes[stats.start_offset + i + 1]
                                     ELSE 32
            ELSE text = SelectSeq(processed, graphic)

\* C5's case: with replace_non_printable, the processed bytes hold a NUL, a
\* 0xFF and a graphic byte.
C5_Witness ==
    /\ Reported
    /\ config.replace_non_printable
    /\ \E i, j, k \in result.report.stats.start_offset + 1 .. result.report.stats.end_position :
          bytes[i] = 0 /\ bytes[j] = 255 /\ bytes[k] \in 33 .. 126

\* A call of extract_from_bytes has ended, returning or not.
Ended == pc \in {"returned", "panicked", "diverged"}

\* C6: for a binary the decoder accepts, extract_from_bytes returns
\* NotEnoughProgramHeaders exactly when program_header_index is no index of
\* the program headers, otherwise NoTextExtracted exactly when the extracted
\* text is empty, and otherwise a report; the errors come with no report.
C6_ErrorsThenReport ==
    (Ended /\ accepted) =>
        IF Len(program_headers) <= config.program_header_index
        THEN result = ErrResult("NotEnoughProgramHeaders")
        ELSE IF ScanLoop(bytes, config, StartOffset, 0, <<>>).extracted_text = <<>>
        THEN result = ErrResult("NoTextExtracted")
        ELSE Reported

\* C6, for the calls that return.
C6_ReturnedErrorsThenReport ==
    (pc = "returned" /\ accepted) =>
        IF Len(program_headers) <= config.program_header_index
        THEN result = ErrResult("NotEnoughProgramHeaders")
        ELSE IF ScanLoop(bytes, config, StartOffset, 0, <<>>).extracted_text = <<>>
        THEN result = ErrResult("NoTextExtracted")
        ELSE Reported

-----------------------------------------------------------------------------
(* Properties of the demangler and of the LLD parser (LLDSpec).            *)

\* A length in decimal, as the mangling writes it.
Decimal(n) == IF n < 10 THEN <<48 + n>> ELSE <<48 + (n \div 10), 48 + (n % 10)>>

RECURSIVE Mangled(_)
\* The length-prefixed segments of a path, one after the other.
Mangled(segments) ==
    IF Len(segments) = 0 THEN <<>>
    ELSE Decimal(Len(Head(segments))) \o Head(segments) \o Mangled(Tail(segments))

\* Names of path segments.
SegmentNames ==
    { <<112, 114, 111, 103, 114, 97, 109>>, \* "program"
      <<109, 111, 100, 117, 108, 101>>, \* "module"
      <<102, 105, 108, 101>>, \* "file"
      <<68, 97, 116, 97, 83, 116, 114, 117, 99, 116, 117, 114, 101>>, \* "DataStructure"
      <<109, 101, 116, 104, 111, 100>>, \* "method"
      <<99, 111, 114, 101>> \* "core"
    }

\* Paths of named segments: the short ones, and the one of the example.
FlatPaths ==
    (BoundedSeqs(SegmentNames, MaxPieces) \ {<<>>}) \cup
    { << <<112, 114, 111, 103, 114, 97, 109>>,
         <<109, 111, 100, 117, 108, 101>>,
         <<102, 105, 108, 101>>,
         <<68, 97, 116, 97, 83, 116, 114, 117, 99, 116, 117, 114, 101>>,
         <<109, 101, 116, 104, 111, 100>> >> }

\* The hex digits of the hash group `17h13871ae2612c8829`.
HashHex == <<49, 51, 56, 55, 49, 97, 101, 50, 54, 49, 50, 99, 56, 56, 50, 57>>

\* `_ZN`, the segments, `17h<hex>` and `E`.
FlatNameWithHash(segments) ==
    <<95, 90, 78>> \o Mangled(segments) \o <<49, 55, 104>> \o HashHex \o <<69>>

\* `_ZN`, the segments and `E`.
FlatName(segments) == <<95, 90, 78>> \o Mangled(segments) \o <<69>>

\* C8: for a flat name `_ZN <len><seg> ... <len><seg> 17h<16 hex> E`,
\* demangle returns a symbol whose name is the last named segment, whose
\* path is the named segments before it and whose hash is `h` and the hex
\* digits; for the path program, module, file, DataStructure, method the
\* type is Method.
C8_FlatNameDemangled ==
    demangled.status # "None" =>
        \A segments \in FlatPaths :
            blob = FlatNameWithHash(segments) =>
                /\ demangled.status = "Ok"
                /\ demangled.symbol.name = segments[Len(segments)]
                /\ demangled.symbol.path = SubSeq(segments, 1, Len(segments) - 1)
                /\ demangled.symbol.hash = Some(<<104>> \o HashHex)
                /\ Len(segments) = 5 => demangled.symbol.symbol_type = "Method"

\* C9: every name `_ZN`, length-prefixed segments, `E` with no `$LT$` and no
\* impl marker is parsed as a flat path and yields a symbol, however many
\* digits the first length has.
C9_FlatNamesYieldSymbols ==
    demangled.status # "None" =>
        \A segments \in FlatPaths :
            blob = FlatName(segments) =>
                /\ demangled.status = "Ok"
                /\ demangled.symbol.implementing_trait = None
                /\ demangled.symbol.path \o <<demangled.symbol.name>> = segments

\* C10: demangle returns a symbol or an error for every token of
\* extract_mangled_names, and LLDParser::extract_definitions completes with
\* the definitions of all the tokens that demangle.
C10_FailingTokensDropped ==
    /\ names.state = "returned" =>
          \A k \in 1 .. Len(names.tokens) :
              demangle(names.tokens[k]).status \in {"Ok", "Err"}
    /\ lld.outcome # "idle" =>
          /\ lld.outcome = "Returned"
          /\ names.state = "returned" =>
                lld.definitions =
                    UNION {LLDDefinitionOf(demangle(names.tokens[k]).symbol, lld.program_name) :
                              k \in {j \in 1 .. Len(names.tokens) :
                                        demangle(names.tokens[j]).status = "Ok"}}

\* C10, for the texts on which neither demangle nor extract_mangled_names
\* fails to return.
C10_DroppedWhenAllReturn ==
    (/\ names.state = "returned"
     /\ lld.outcome # "idle"
     /\ \A k \in 1 .. Len(names.tokens) : demangle(names.tokens[k]).status # "Panic") =>
        /\ lld.outcome = "Returned"
        /\ lld.definitions =
               UNION {LLDDefinitionOf(demangle(names.tokens[k]).symbol, lld.program_name) :
                         k \in {j \in 1 .. Len(names.tokens) :
                                   demangle(names.tokens[j]).status = "Ok"}}


-----------------------------------------------------------------------------
(* Properties of extract_mangled_names, of the LLD parser's filter and of   *)
(* the Anchor parser's name cleaning.                                       *)

\* The index of the first `_ZN` after the one at index i, -1 for none.
NextOccurrence(text, i) == FindFrom(text, i + 3, <<95, 90, 78>>)

\* The `_ZN` at index i has an `E` before the next `_ZN`.
ClosedAt(text, i) ==
    /\ MatchesAt(text, i, <<95, 90, 78>>)
    /\ FindFrom(text, i, <<69>>) # -1
    /\ NextOccurrence(text, i) # -1 =>
           FindFrom(text, i, <<69>>) < NextOccurrence(text, i)

RECURSIVE TokensFrom(_, _)
\* In blob order, the token of every `_ZN` from index i on that has an `E`
\* before the next `_ZN`: from that `_ZN` to the first `E` after it.
TokensFrom(text, i) ==
    IF i >= Len(text) THEN <<>>
    ELSE IF ClosedAt(text, i)
    THEN <<Slice(text, i, FindFrom(text, i, <<69>>) + 1)>> \o TokensFrom(text, i + 1)
    ELSE TokensFrom(text, i + 1)

\* C11: extract_mangled_names returns, in blob order, one token for each
\* `_ZN` that has an `E` before the next `_ZN`, from that `_ZN` to the first
\* `E` after it; a `_ZN` without one is passed over and the scan goes on;
\* every token begins with `_ZN` and ends with `E`.
C11_TokenPerClosedOccurrence ==
    names.state # "idle" =>
        /\ names.state = "returned"
        /\ names.tokens = TokensFrom(blob, 0)
        /\ \A k \in 1 .. Len(names.tokens) :
               /\ StartsWith(names.tokens[k], <<95, 90, 78>>)
               /\ EndsWith(names.tokens[k], <<69>>)

\* C11, for the blobs on which extract_mangled_names returns.
C11_TokensWhenReturned ==
    names.state = "returned" =>
        /\ names.tokens = TokensFrom(blob, 0)
        /\ \A k \in 1 .. Len(names.tokens) :
               /\ StartsWith(names.tokens[k], <<95, 90, 78>>)
               /\ EndsWith(names.tokens[k], <<69>>)

\* extract_mangled_names has returned a token and passed over a `_ZN` that
\* has no `E` after it.
C11_ReturnedWitness ==
    /\ names.state = "returned"
    /\ Len(names.tokens) >= 1
    /\ \E i \in 0 .. Len(blob) - 1 :
           MatchesAt(blob, i, <<95, 90, 78>>) /\ ~ClosedAt(blob, i)


\* The symbols of the tokens of the blob that demangle.
DemangledSymbols ==
    {demangle(names.tokens[k]).symbol :
        k \in {j \in 1 .. Len(names.tokens) : demangle(names.tokens[j]).status = "Ok"}}

LibNames == STD_LIB_NAMES \cup ANCILLARY_LIB_NAMES

\* The idents of the definitions extract_definitions returned.
EmittedIdents == {d.ident : d \in lld.definitions}

\* The expected program name was given and the segment differs from it.
NotExpectedProgram(segment) ==
    lld.program_name # None /\ segment # lld.program_name[1]

\* C12, as stated: a symbol with a non-empty path is rejected exactly when
\* its top-level segment is a prefix of some library name (or differs from
\* the expected program name); every other symbol is emitted.
C12_RejectsPrefixesOfLibNames ==
    (names.state = "returned" /\ lld.outcome = "Returned") =>
        \A symbol \in {x \in DemangledSymbols : Len(x.path) > 0} :
            Join(symbol.path, <<58, 58>>) \notin EmittedIdents
                <=> \/ \E lib \in LibNames : StartsWith(lib, symbol.path[1])
                    \/ NotExpectedProgram(symbol.path[1])

\* C12, amended: a symbol with a non-empty path is rejected exactly when
\* some library name is a prefix of its top-level segment (or the segment
\* differs from the expected program name); every other symbol is emitted.
C12_RejectsLibNamePrefixed ==
    (names.state = "returned" /\ lld.outcome = "Returned") =>
        \A symbol \in {x \in DemangledSymbols : Len(x.path) > 0} :
            Join(symbol.path, <<58, 58>>) \notin EmittedIdents
                <=> \/ \E lib \in LibNames : StartsWith(symbol.path[1], lib)
                    \/ NotExpectedProgram(symbol.path[1])

\* extract_definitions has rejected a symbol whose top-level segment goes on
\* after a library name, with no expected program name given.
C12_Witness ==
    /\ names.state = "returned"
    /\ lld.outcome = "Returned"
    /\ lld.program_name = None
    /\ \E symbol \in {x \in DemangledSymbols : Len(x.path) > 0} :
           /\ symbol.path[1] \notin LibNames
           /\ \E lib \in LibNames : StartsWith(symbol.path[1], lib)
           /\ Join(symbol.path, <<58, 58>>) \notin EmittedIdents


\* The mangled name of the end-to-end scenario of the LLD parser.
HashedScenario ==
    <<95, 90, 78, 53, 109, 121, 99, 111, 114, 101, 54, 109, 111, 100, 117, 108, 101, 55, 112, 114, 111, 99, 101, 115, 115, 49, 55, 104, 97, 98, 99, 100, 101, 102, 48, 49, 50, 51, 52, 53, 54, 55, 56, 57, 69>>
    \* "_ZN5mycore6module7process17habcdef0123456789E"

\* C13: on a text that holds only the hashed name of the scenario, the LLD
\* parser emits exactly one Definition, with ident "mycore::module", kind
\* "Function" and hash Some("process"): the ident joins the segments before
\* the last named one, and the hash field carries the last named one.
C13_HashedSymbolDefinition ==
    (blob = HashedScenario /\ lld.outcome # "idle" /\ lld.program_name = None) =>
        /\ lld.outcome = "Returned"
        /\ lld.definitions =
               {[ident |-> <<109, 121, 99, 111, 114, 101, 58, 58, 109, 111, 100, 117, 108, 101>>, \* "mycore::module"
                 kind |-> "Function",
                 hash |-> Some(<<112, 114, 111, 99, 101, 115, 115>>)]} \* "process"

\* The scenario with the length 6 that "mycore" has.
WellFormedScenario ==
    <<95, 90, 78, 54, 109, 121, 99, 111, 114, 101, 54, 109, 111, 100, 117, 108, 101, 55, 112, 114, 111, 99, 101, 115, 115, 49, 55, 104, 97, 98, 99, 100, 101, 102, 48, 49, 50, 51, 52, 53, 54, 55, 56, 57, 69>>
    \* "_ZN6mycore6module7process17habcdef0123456789E"

\* What the code emits for the scenario: nothing, the name read being the
\* five characters "mycor" with an empty path.
C13_ScenarioEmitsNothing ==
    (blob = HashedScenario /\ lld.outcome # "idle") =>
        lld.outcome = "Returned" /\ lld.definitions = {}

\* What the code emits for the well-formed scenario: the hash segment is
\* taken for the name, and the last named segment stays in the ident.
C13_HashSegmentAsName ==
    (blob = WellFormedScenario /\ lld.outcome # "idle" /\ lld.program_name = None) =>
        /\ lld.outcome = "Returned"
        /\ lld.definitions =
               {[ident |-> <<109, 121, 99, 111, 114, 101, 58, 58, 109, 111, 100, 117, 108, 101, 58, 58, 112, 114, 111, 99, 101, 115, 115>>, \* "mycore::module::process"
                 kind |-> "Function",
                 hash |-> Some(<<104, 97, 98, 99, 100, 101, 102, 48, 49, 50, 51, 52, 53, 54, 55, 56, 57>>)]} \* "habcdef0123456789"

\* extract_definitions has been called on the well-formed scenario.
C13_ScenarioWitness ==
    blob = WellFormedScenario /\ lld.outcome = "Returned" /\ lld.program_name = None


\* The name ends with one of REMOVABLE_KEYWORDS.
EndsWithRemovable(name) ==
    \E k \in 1 .. Len(REMOVABLE_KEYWORDS) : EndsWith(name, REMOVABLE_KEYWORDS[k])

\* The names the Anchor parser alone reported, each the cleaning of a
\* captured name.
CleanedNames == result.report.instructions \cup result.report.protected_instructions

\* C14: the cleaning of a captured name ends with no removable keyword, and
\* cleaning it again changes nothing.
C14_CleaningIsStable ==
    (Reported /\ parsers = <<AnchorParser>>) =>
        \A name \in CleanedNames :
            ~EndsWithRemovable(name) /\ clean_instruction_name(name) = name

\* What the code keeps: a cleaned name does not end with the last keyword
\* of the list, the one keyword tried after all the others.
C14_LastKeywordStripped ==
    (Reported /\ parsers = <<AnchorParser>>) =>
        \A name \in CleanedNames :
            ~EndsWith(name, REMOVABLE_KEYWORDS[Len(REMOVABLE_KEYWORDS)])

\* The Anchor parser alone has reported "Xanchor", what one pass leaves of
\* "Xanchoridl".
C14_StrippedWitness ==
    /\ Reported
    /\ parsers = <<AnchorParser>>
    /\ <<88, 97, 110, 99, 104, 111, 114>> \in CleanedNames


-----------------------------------------------------------------------------
(* Properties of the program name and of the normalized source files.      *)

\* The source files the parsers found in the reported text, before
\* normalize_source_files.
MergedFiles == extract_source_files(parsers, result.report.text)

\* The number of merged source files of a project.
FileCount(project) == Cardinality({f \in MergedFiles : f.project = project})

\* The projects of the merged source files outside STD_LIB_NAMES.
CountedProjects == {f.project : f \in MergedFiles} \ STD_LIB_NAMES

\* C15: program_name is Some(p) only if p is the project of a source file,
\* is not a standard-library name, and no other such project has strictly
\* more files; it is None exactly when no source file has a project outside
\* STD_LIB_NAMES.
C15_ProgramNameIsTopProject ==
    Reported =>
        /\ result.report.program_name = None <=> CountedProjects = {}
        /\ result.report.program_name # None =>
               /\ result.report.program_name[1] \in CountedProjects
               /\ \A q \in CountedProjects :
                      FileCount(q) <= FileCount(result.report.program_name[1])

\* A report names a program that has fewer files than a standard-library
\* project and more than another project has.
C15_Witness ==
    /\ Reported
    /\ result.report.program_name # None
    /\ \E f \in MergedFiles :
           /\ f.project \in STD_LIB_NAMES
           /\ FileCount(f.project) > FileCount(result.report.program_name[1])

\* A report names no program although source files were found, all of a
\* standard-library project.
C15_NoneWitness ==
    /\ Reported
    /\ result.report.program_name = None
    /\ MergedFiles # {}


\* C16: in a report that names a program, every entry of files has that
\* program as its project, and stats.file_count is the number of entries
\* of files.
C16_FilesBelongToProgram ==
    (Reported /\ result.report.program_name # None) =>
        /\ \A file \in result.report.files :
               file.project = result.report.program_name[1]
        /\ result.report.stats.file_count = Cardinality(result.report.files)

\* A report names a program and holds a file that another project had
\* before normalization.
C16_Witness ==
    /\ Reported
    /\ result.report.program_name # None
    /\ result.report.files # {}
    /\ \E file \in MergedFiles : file.project # result.report.program_name[1]


-----------------------------------------------------------------------------
(* Properties of the memory map and of the analyzers (MapSpec).            *)

\* No two entries of a list of instructions have the same address.
UniqueAddresses(instructions) ==
    \A i, j \in 1 .. Len(instructions) :
        instructions[i].address = instructions[j].address => i = j

\* C17: after MemoryMap::new, a `.text` section recorded or not, no two
\* entries of instructions have the same address.
C17_AddressesUnique ==
    memory_map.built => UniqueAddresses(memory_map.instructions)

\* C17, for the programs of which no `.text` section is recorded.
C17_UniqueWithoutText ==
    (memory_map.built /\ ".text" \notin DOMAIN memory_map.sections) =>
        UniqueAddresses(memory_map.instructions)

\* The map is built from a decoded section that is not recorded as `.text`.
C17_WithoutTextWitness ==
    /\ memory_map.built
    /\ ".text" \notin DOMAIN memory_map.sections
    /\ Len(memory_map.instructions) >= 2

\* The value of a small u64.
ValueOf(a) == a[1] + 65536 * a[2]

\* The 64-bit immediate of the Lddw found at an address of `.text`.
Imm64At(address) ==
    U32FromLeBytes(memory_map.sections[".text"].content,
                   ValueOf(address) - ValueOf(memory_map.sections[".text"].addr) + 4)
        \o U32FromLeBytes(memory_map.sections[".text"].content,
                   ValueOf(address) - ValueOf(memory_map.sections[".text"].addr) + 12)

\* The entries of instructions that are Lddw bound to a string.
StringBound ==
    {k \in 1 .. Len(memory_map.instructions) :
        /\ memory_map.instructions[k].opcode = "Lddw"
        /\ memory_map.instructions[k].references # None}

\* C18: the immediate t of every Lddw bound to String(s) is a key of
\* strings with value s, and the instruction's address is in references[t];
\* every key t of references is a key of strings, and every address under
\* it is that of an Lddw of instructions bound to the string at t.
C18_StringReferencesBound ==
    memory_map.built =>
        /\ \A k \in StringBound :
               /\ Imm64At(memory_map.instructions[k].address) \in DOMAIN memory_map.strings
               /\ memory_map.strings[Imm64At(memory_map.instructions[k].address)]
                      = memory_map.instructions[k].references[1]
               /\ Imm64At(memory_map.instructions[k].address) \in DOMAIN memory_map.references
               /\ \E n \in DOMAIN memory_map.references[
                               Imm64At(memory_map.instructions[k].address)] :
                      memory_map.references[
                          Imm64At(memory_map.instructions[k].address)][n]
                          = memory_map.instructions[k].address
        /\ \A t \in DOMAIN memory_map.references :
               /\ t \in DOMAIN memory_map.strings
               /\ \A n \in DOMAIN memory_map.references[t] :
                      \E k \in StringBound :
                          /\ memory_map.instructions[k].address = memory_map.references[t][n]
                          /\ Imm64At(memory_map.instructions[k].address) = t
                          /\ memory_map.instructions[k].references
                                 = Some(memory_map.strings[t])

\* The map holds an Lddw bound to a string, and one that is not.
C18_Witness ==
    /\ memory_map.built
    /\ StringBound # {}
    /\ DOMAIN memory_map.references # {}
    /\ \E k \in 1 .. Len(memory_map.instructions) :
           /\ memory_map.instructions[k].opcode = "Lddw"
           /\ memory_map.instructions[k].references = None


\* The instruction lists of the blocks, one after the other.
BlockInstructions(blocks) ==
    Concat([k \in 1 .. Len(blocks) |-> blocks[k].instructions])

\* C19: the blocks of BaseAnalyzer::find_functions, their instruction lists
\* taken one after the other in the order of emission, are the memory
\* map's instructions: each instruction is in one block and none is lost.
C19_BlocksPartitionInstructions ==
    functions.analyzer = "base_analyzer" =>
        BlockInstructions(functions.blocks) = memory_map.instructions

\* The base analyzer found several blocks, one of them of several
\* instructions.
C19_Witness ==
    /\ functions.analyzer = "base_analyzer"
    /\ Len(functions.blocks) >= 2
    /\ \E k \in 1 .. Len(functions.blocks) :
           Len(functions.blocks[k].instructions) >= 2

\* The head addresses of the blocks of the function list.
BlockHeads == {functions.blocks[k].address : k \in 1 .. Len(functions.blocks)}

\* C20: the to_addr of every edge map_control_flow emits, of the base
\* analyzer and of the syscall analyzer, is the head address of a block of
\* the function list the edges were computed from.
C20_EdgesTargetBlockHeads ==
    \A n \in 1 .. Len(control_flow.edges) :
        control_flow.edges[n].to_addr \in BlockHeads

\* C20, for the edges of the base analyzer alone.
C20_BaseEdgesTargetBlockHeads ==
    control_flow.analyzer = "base_analyzer" =>
        \A n \in 1 .. Len(control_flow.edges) :
            control_flow.edges[n].to_addr \in BlockHeads

\* The base analyzer emitted a call edge and a jump edge.
C20_BaseWitness ==
    /\ control_flow.analyzer = "base_analyzer"
    /\ \E n \in 1 .. Len(control_flow.edges) : control_flow.edges[n].kind = "Call"
    /\ \E n \in 1 .. Len(control_flow.edges) : control_flow.edges[n].kind = "Jump"

\* C20, for the edges of the syscall analyzer: to_addr is the number of the
\* syscall, which is the head of no block.
C20_SyscallEdgesTargetNumbers ==
    control_flow.analyzer = "syscall_analyzer" =>
        \A n \in 1 .. Len(control_flow.edges) :
            /\ control_flow.edges[n].to_addr \notin BlockHeads
            /\ \E number \in SyscallNumbers :
                   control_flow.edges[n].to_addr = U64(number)

\* The syscall analyzer emitted an edge from the blocks it found itself.
C20_SyscallWitness ==
    /\ functions.analyzer = "syscall_analyzer"
    /\ control_flow.analyzer = "syscall_analyzer"
    /\ control_flow.edges # <<>>


\* The entries of the memory map's instructions that are calls of a syscall.
SyscallEntries ==
    {k \in 1 .. Len(memory_map.instructions) : IsSyscall(memory_map.instructions[k])}

\* The blocks of the function list at an address, and the edges from it.
BlocksAt(address) ==
    {b \in 1 .. Len(functions.blocks) : functions.blocks[b].address = address}
EdgesFrom(address) ==
    {n \in 1 .. Len(control_flow.edges) : control_flow.edges[n].from_addr = address}

\* C21: for every Call whose immediate is a key of the syscall map, the
\* syscall analyzer's find_functions emits exactly one block (at the call's
\* address, named after the syscall, of size 8, of that one instruction)
\* and its map_control_flow exactly one Call edge from the call site, to
\* the immediate; nothing is emitted for any other instruction.
C21_OneBlockAndEdgePerSyscall ==
    /\ functions.analyzer = "syscall_analyzer" =>
           /\ \A k \in SyscallEntries :
                  /\ Cardinality(BlocksAt(memory_map.instructions[k].address)) = 1
                  /\ \A b \in BlocksAt(memory_map.instructions[k].address) :
                         /\ functions.blocks[b].name
                                = <<"syscall", memory_map.instructions[k].imm>>
                         /\ functions.blocks[b].size = 8
                         /\ functions.blocks[b].instructions
                                = <<memory_map.instructions[k]>>
           /\ \A b \in 1 .. Len(functions.blocks) :
                  \E k \in SyscallEntries :
                      memory_map.instructions[k].address = functions.blocks[b].address
    /\ (functions.analyzer = "syscall_analyzer"
            /\ control_flow.analyzer = "syscall_analyzer") =>
           /\ \A k \in SyscallEntries :
                  /\ Cardinality(EdgesFrom(memory_map.instructions[k].address)) = 1
                  /\ \A n \in EdgesFrom(memory_map.instructions[k].address) :
                         /\ control_flow.edges[n].kind = "Call"
                         /\ control_flow.edges[n].to_addr
                                = AsU64(memory_map.instructions[k].imm)
           /\ \A n \in 1 .. Len(control_flow.edges) :
                  \E k \in SyscallEntries :
                      memory_map.instructions[k].address
                          = control_flow.edges[n].from_addr

\* C21, entry by entry of the memory map's instructions: the blocks, and
\* the edges computed from them, are those of the entries that are calls
\* of a syscall, one each and in their order.
C21_OnePerEntry ==
    LET Calls == SelectSeq(memory_map.instructions, IsSyscall)
    IN  /\ functions.analyzer = "syscall_analyzer" =>
               /\ Len(functions.blocks) = Len(Calls)
               /\ \A b \in 1 .. Len(Calls) :
                      functions.blocks[b] =
                          [address |-> Calls[b].address,
                           name |-> <<"syscall", Calls[b].imm>>,
                           size |-> 8, instructions |-> <<Calls[b]>>]
        /\ (functions.analyzer = "syscall_analyzer"
                /\ control_flow.analyzer = "syscall_analyzer") =>
               /\ Len(control_flow.edges) = Len(Calls)
               /\ \A n \in 1 .. Len(Calls) :
                      /\ control_flow.edges[n].kind = "Call"
                      /\ control_flow.edges[n].from_addr = Calls[n].address
                      /\ control_flow.edges[n].to_addr = AsU64(Calls[n].imm)

\* The syscall analyzer emitted blocks and edges for a map that holds a
\* call of a syscall and another instruction, each address once.
C21_UniqueWitness ==
    /\ functions.analyzer = "syscall_analyzer"
    /\ control_flow.analyzer = "syscall_analyzer"
    /\ UniqueAddresses(memory_map.instructions)
    /\ SyscallEntries # {}
    /\ SyscallEntries # 1 .. Len(memory_map.instructions)
    /\ control_flow.edges # <<>>


-----------------------------------------------------------------------------
(* Properties of the type registry and of the struct resolver (RegSpec).   *)

\* C22: the ids the register_* calls returned are 1, 2, 3, ... in call
\* order, and each of them still resolves through get_type to the type that
\* was registered under it.
C22_IdsInCallOrderAndKept ==
    \A i \in 1 .. Len(returned) :
        /\ returned[i].type_id = i
        /\ get_type(type_registry, returned[i].type_id) = Some(returned[i].rust_type)

\* Two different types of the same name were registered, the second by the
\* struct resolver or after another.
C22_Witness ==
    /\ Len(returned) >= 2
    /\ \E i, j \in 1 .. Len(returned) :
           /\ i < j
           /\ returned[i].rust_type.kind # returned[j].rust_type.kind
           /\ Description(returned[i].rust_type) = Description(returned[j].rust_type)
    /\ get_type(type_registry, 0) = None


\* The bases of the accesses of the model, and the name of the struct of each.
Bases == {0, 4096}
StructName(base) == IF base = 0 THEN <<"Struct_", 0>> ELSE <<"Struct_", 1, 0, 0, 0>>

\* The access patterns are accesses of 8, 4 and 1 bytes at offsets 0, 8 and
\* 12 from the base, and no other.
ScenarioAt(base) ==
    {<<access_patterns[k].address, access_patterns[k].size>> :
        k \in 1 .. Len(access_patterns)}
        = {<<base, 8>>, <<base + 8, 4>>, <<base + 12, 1>>}

\* The structs registered under the name of a base.
StructsOf(base) ==
    {id \in DOMAIN type_registry.types :
        /\ type_registry.types[id].kind = "Struct"
        /\ type_registry.types[id].name = StructName(base)}

\* The descriptions of the types of the fields of a struct, in order.
FieldTypes(struct_type) ==
    [k \in 1 .. Len(struct_type.fields) |->
        Description(struct_type.fields[k].field_type)]

\* C23: when the access patterns at a base are accesses of sizes 8, 4, 1 at
\* offsets 0, 8, 12 from it, StructResolver::resolve registers a struct for
\* the base whose fields are typed u64, u32, u8 in this order.
C23_StructOfThreeFields ==
    \A base \in Bases :
        (resolved /\ ScenarioAt(base)) =>
            \E id \in StructsOf(base) :
                FieldTypes(type_registry.types[id])
                    = << <<"u64">>, <<"u32">>, <<"u8">> >>

\* C23, as the resolver does it: the struct of an access holds the accesses
\* from its address up to the address that equals its size, so that it has
\* fields only at offsets below its size, and only for a base below it.
C23_FieldsBelowSize ==
    resolved =>
        /\ StructsOf(4096) = {}
        /\ \A id \in StructsOf(0) :
               /\ Len(type_registry.types[id].fields) = 1
               /\ \A k \in 1 .. Len(type_registry.types[id].fields) :
                      type_registry.types[id].fields[k].offset
                          < type_registry.types[id].size

\* resolve ran on the accesses of the claim at base 0, none of them by a
\* decoded instruction, and registered a struct of the one field u64.
C23_OneFieldWitness ==
    /\ resolved
    /\ ScenarioAt(0)
    /\ \A k \in 1 .. Len(access_patterns) :
           access_patterns[k].instruction.instruction = None
    /\ \E id \in StructsOf(0) :
           FieldTypes(type_registry.types[id]) = << <<"u64">> >>


-----------------------------------------------------------------------------
(* Properties of the server's authorization layer (AuthSpec).              *)

\* The list configured in API_KEYS: the entries between the commas of its
\* value, without the blanks around them; no entry when it is unset.
ConfiguredKeys ==
    LET White == {9, 10, 11, 12, 13, 32}
        Strip(s) ==
            IF \A k \in 1 .. Len(s) : s[k] \in White THEN <<>>
            ELSE SubSeq(s,
                     CHOOSE b \in 1 .. Len(s) :
                         s[b] \notin White /\ \A j \in 1 .. b - 1 : s[j] \in White,
                     CHOOSE e \in 1 .. Len(s) :
                         s[e] \notin White /\ \A j \in e + 1 .. Len(s) : s[j] \in White)
        Entries(parts) == {Strip(parts[k]) : k \in 1 .. Len(parts)} \ {<<>>}
    IN  IF api_keys_env = None THEN {}
        ELSE Entries(Split(api_keys_env[1], <<44>>))

\* The request is to the status path.
ToStatus == request[1].path = <<47, 115, 116, 97, 116, 117, 115>> \* "/status"

\* The request carries an x-api-key header whose value is in the list.
CarriesConfiguredKey ==
    /\ request[1].x_api_key # None
    /\ request[1].x_api_key[1] \in ConfiguredKeys

\* C24: a request to a path other than /status reaches its handler only
\* with an x-api-key header whose value is in the list configured in
\* API_KEYS, and is answered 401 otherwise; a request to /status always
\* reaches its handler.
C24_OnlyConfiguredKeysPass ==
    request # None =>
        /\ ToStatus => response = Some("next")
        /\ (~ToStatus /\ CarriesConfiguredKey) => response = Some("next")
        /\ (~ToStatus /\ ~CarriesConfiguredKey) => response = Some("UNAUTHORIZED")

\* C24, when API_KEYS configures at least one key.
C24_WithKeysConfigured ==
    (request # None /\ ConfiguredKeys # {}) =>
        /\ ToStatus => response = Some("next")
        /\ (~ToStatus /\ CarriesConfiguredKey) => response = Some("next")
        /\ (~ToStatus /\ ~CarriesConfiguredKey) => response = Some("UNAUTHORIZED")

\* With keys configured, a request with the default key was answered 401.
C24_ConfiguredWitness ==
    /\ request # None
    /\ ConfiguredKeys # {}
    /\ ~ToStatus
    /\ request[1].x_api_key
           = Some(<<100, 101, 118, 45, 97, 112, 105, 45, 107, 101, 121>>) \* "dev-api-key"
    /\ response = Some("UNAUTHORIZED")

\* C24, when API_KEYS configures no key: the default key alone passes.
C24_DefaultKeyPasses ==
    (request # None /\ ConfiguredKeys = {} /\ ~ToStatus) =>
        (response = Some("next")
            <=> request[1].x_api_key
                    = Some(<<100, 101, 118, 45, 97, 112, 105, 45, 107, 101, 121>>))


-----------------------------------------------------------------------------
(* Further properties of the analyzers (MapSpec).                          *)

InstructionsAt(address) ==
    UNION {{functions.blocks[b].instructions[k] :
               k \in {j \in 1 .. Len(functions.blocks[b].instructions) :
                         functions.blocks[b].instructions[j].address = address}} :
           b \in 1 .. Len(functions.blocks)}

\* C26: a Jump edge of BaseAnalyzer::map_control_flow from the instruction
\* at address a with immediate imm has to_addr = (a + 8 + imm) mod 2^64,
\* for every a of the 64 bits; it is conditional when the instruction is
\* a conditional jump and unconditional when it is Ja or Exit.
C26_JumpTargetsWrap ==
    control_flow.analyzer = "base_analyzer" =>
        \A n \in 1 .. Len(control_flow.edges) :
            control_flow.edges[n].kind = "Jump" =>
                /\ InstructionsAt(control_flow.edges[n].from_addr) # {}
                /\ \A instr \in InstructionsAt(control_flow.edges[n].from_addr) :
                       /\ instr.opcode \in ConditionalJumps \cup {"Ja", "Exit"}
                       /\ control_flow.edges[n].to_addr
                              = U64Add(U64Add(instr.address, U64(8)), AsU64(instr.imm))
                       /\ control_flow.edges[n].conditional
                              <=> instr.opcode \in ConditionalJumps

\* The base analyzer emitted a jump edge from the last slot of the address
\* space to address 0.
C26_Witness ==
    /\ control_flow.analyzer = "base_analyzer"
    /\ \E n \in 1 .. Len(control_flow.edges) :
           /\ control_flow.edges[n].kind = "Jump"
           /\ control_flow.edges[n].from_addr = <<65528, 65535, 65535, 65535>>
           /\ control_flow.edges[n].to_addr = <<0, 0, 0, 0>>
           /\ ~control_flow.edges[n].conditional

\* The base analyzer emitted a conditional jump edge to a lower address, and
\* one from the last slot but one to address 0.
C26_ConditionalWitness ==
    /\ control_flow.analyzer = "base_analyzer"
    /\ \E n \in 1 .. Len(control_flow.edges) :
           /\ control_flow.edges[n].conditional
           /\ \/ U64Lt(control_flow.edges[n].to_addr, control_flow.edges[n].from_addr)
                    /\ control_flow.edges[n].from_addr[4] = 0
              \/ control_flow.edges[n].from_addr = <<65520, 65535, 65535, 65535>>


-----------------------------------------------------------------------------
(* Further properties of extract_from_bytes and of the driver (Spec).      *)

\* C27: in a report whose program_name is p, the path of every file is
\* p, "/" and the file's relative_path, also of the files the Anchor parser
\* found for the project p itself.
C27_PathsRebuilt ==
    (Reported /\ result.report.program_name # None) =>
        \A file \in result.report.files :
            file.path = result.report.program_name[1] \o <<47>> \o file.relative_path

\* C27, for the files normalization rewrites: a file of the report is a
\* file of the project p as its parser made it, or has the rebuilt path.
C27_RewrittenPathsRebuilt ==
    (Reported /\ result.report.program_name # None) =>
        \A file \in result.report.files :
            \/ file \in MergedFiles /\ file.project = result.report.program_name[1]
            \/ /\ file.path
                      = result.report.program_name[1] \o <<47>> \o file.relative_path
               /\ \E merged \in MergedFiles :
                      /\ merged.project # result.report.program_name[1]
                      /\ merged.relative_path = file.relative_path

\* A report holds a file of the program as the Anchor parser made it, with
\* its path under programs/, next to a file that another project had.
C27_AnchorPathWitness ==
    /\ Reported
    /\ result.report.program_name # None
    /\ \E file \in result.report.files :
           /\ file \in MergedFiles
           /\ StartsWith(file.path, <<112, 114, 111, 103, 114, 97, 109, 115, 47>>) \* "programs/"
    /\ \E merged \in MergedFiles : merged.project # result.report.program_name[1]

-----------------------------------------------------------------------------
(* Protected names and the parser that harvested them (Spec).              *)

\* The names a handler of the given kind harvests in the text of the report.
HarvestedBy(kind) ==
    UNION {parse_instructions(parsers[k], result.report.text) :
              k \in {h \in Handlers : parsers[h].kind = kind}}

\* A name of PROTECTED_INSTRUCTIONS or one that starts with "Idl".
IdlReserved(name) ==
    name \in PROTECTED_INSTRUCTIONS \/ StartsWith(name, <<73, 100, 108>>)

\* C28: in every successful report no name of instructions starts with
\* "Idl": a harvested name that is in PROTECTED_INSTRUCTIONS or starts with
\* "Idl" is in protected_instructions only, whichever parser harvested it.
C28_NoIdlInInstructions ==
    Reported =>
        /\ \A name \in result.report.instructions : ~StartsWith(name, <<73, 100, 108>>)
        /\ \A name \in HarvestedBy("anchor") \cup HarvestedBy("native") :
               IdlReserved(name) =>
                   /\ name \in result.report.protected_instructions
                   /\ name \notin result.report.instructions

\* C28 for what the code does: a reserved name the Anchor parser harvested
\* is in protected_instructions only, even when the native parser harvested
\* it too; a reserved name of instructions was harvested by the native
\* parser alone, whose protected set is empty.
C28_AnchorIdlOnlyProtected ==
    Reported =>
        /\ \A name \in HarvestedBy("anchor") :
               IdlReserved(name) =>
                   /\ name \in result.report.protected_instructions
                   /\ name \notin result.report.instructions
        /\ \A name \in result.report.instructions :
               IdlReserved(name) =>
                   name \in HarvestedBy("native") \ HarvestedBy("anchor")
        /\ result.report.protected_instructions \subseteq HarvestedBy("anchor")

\* C28's case: the Anchor parser harvested one reserved name, which the
\* native parser harvested as well, and the native parser alone another.
C28_BothParsersWitness ==
    /\ Reported
    /\ \E name \in HarvestedBy("anchor") \cap HarvestedBy("native") :
          /\ IdlReserved(name)
          /\ name \in result.report.protected_instructions
    /\ \E name \in HarvestedBy("native") \ HarvestedBy("anchor") :
          /\ IdlReserved(name)
          /\ name \in result.report.instructions

-----------------------------------------------------------------------------
(* Termination of extract_mangled_names (LLDSpec).                         *)

\* The `_ZN` at index i has its first `E` beyond the next `_ZN`.
OvertakenAt(text, i) ==
    /\ MatchesAt(text, i, <<95, 90, 78>>)
    /\ NextOccurrence(text, i) # -1
    /\ FindFrom(text, i, <<69>>) > NextOccurrence(text, i)

\* C29: extract_mangled_names returns on every blob, each iteration of its
\* loop advancing the scan position or ending the loop, also when the first
\* `E` after a `_ZN` lies beyond the next `_ZN`; so that
\* LLDParser::extract_definitions finishes on every blob too.
C29_ExtractMangledNamesReturns ==
    /\ names.state # "diverged"
    /\ lld.outcome # "Diverged"
    /\ \A i \in 0 .. Len(blob) - 1 :
           OvertakenAt(blob, i) =>
               \/ ExtractNamesStep(blob, i, <<>>).left
               \/ ExtractNamesStep(blob, i, <<>>).start_idx > i

\* C29, for what the code does: the call fails to return only on a blob
\* that holds a `_ZN` whose first `E` lies beyond the next `_ZN`, and an
\* iteration that starts at such a `_ZN` changes neither the scan position
\* nor the tokens.
C29_DivergesOnlyWhenOvertaken ==
    /\ names.state = "diverged" => \E i \in 0 .. Len(blob) - 1 : OvertakenAt(blob, i)
    /\ lld.outcome = "Diverged" => \E i \in 0 .. Len(blob) - 1 : OvertakenAt(blob, i)
    /\ \A i \in 0 .. Len(blob) - 1 :
           OvertakenAt(blob, i) =>
               ExtractNamesStep(blob, i, <<>>) =
                   [start_idx |-> i, pushed |-> <<>>, left |-> FALSE]

\* extract_mangled_names and extract_definitions were both called on a blob
\* with such a `_ZN` and neither returned.
C29_DivergedWitness ==
    /\ names.state = "diverged"
    /\ lld.outcome = "Diverged"
    /\ OvertakenAt(blob, 0)

-----------------------------------------------------------------------------
(* The program name over two analyses of the same bytes (Spec).            *)

\* The projects of the merged source files that are no standard library
\* and that no other such project outnumbers.
TopProjects ==
    {p \in {f.project : f \in MergedFiles} \ STD_LIB_NAMES :
        \A q \in {f.project : f \in MergedFiles} \ STD_LIB_NAMES :
            FileCount(q) <= FileCount(p)}

\* C30: two analyses of the same bytes report the same program_name, and so
\* the same normalized files, also when two or more projects that are no
\* standard library tie for the highest file count.
C30_SameProgramName ==
    (run = 2 /\ Reported /\ first_result.status = "Ok") =>
        /\ result.report.program_name = first_result.report.program_name
        /\ result.report.files = first_result.report.files

\* C30, for what the code does: the two analyses agree on program_name and
\* on the files whenever at most one project has the highest count, and a
\* program_name is always one of the projects of highest count.
C30_SameProgramNameWithoutTie ==
    (run = 2 /\ Reported /\ first_result.status = "Ok") =>
        /\ Cardinality(TopProjects) <= 1 =>
               /\ result.report.program_name = first_result.report.program_name
               /\ result.report.files = first_result.report.files
        /\ TopProjects = {} => result.report.program_name = None
        /\ TopProjects # {} =>
               /\ result.report.program_name \in {Some(p) : p \in TopProjects}
               /\ first_result.report.program_name \in {Some(p) : p \in TopProjects}

\* Two analyses of bytes whose source files are of two projects, one
\* outnumbering the other, have reported the same program_name.
C30_NoTieWitness ==
    /\ run = 2
    /\ Reported
    /\ first_result.status = "Ok"
    /\ Cardinality(TopProjects) = 1
    /\ Cardinality({f.project : f \in MergedFiles} \ STD_LIB_NAMES) >= 2
    /\ result.report.program_name = first_result.report.program_name

\* Two analyses of bytes whose source files are of two tied projects have
\* reported different program names and different files.
C30_TieWitness ==
    /\ run = 2
    /\ Reported
    /\ first_result.status = "Ok"
    /\ Cardinality(TopProjects) >= 2
    /\ result.report.files # first_result.report.files

====
